---------------------------- MODULE Spec2Model ----------------------------
(***************************************************************************)
(* Ansible Facts Explorer: the client-side fact flattening, query          *)
(* matching and filtering engine (components/FactBrowser.tsx and           *)
(* public/filter.worker.js).                                               *)
(*                                                                         *)
(* JavaScript strings are modelled as sequences of one-character strings,  *)
(* so that trimming, suffix tests, splitting and parsing are computed the  *)
(* way the code computes them.  S("abc") converts a literal.               *)
(***************************************************************************)
EXTENDS Integers, Sequences, FiniteSets, TLC

VARIABLES
    data,               \* the response of the fetch of the current/last load
    allFacts,           \* FactBrowser state: FactRow[]
    searchPills,        \* FactBrowser state: string[]
    searchInputValue,   \* FactBrowser state: the live search box content
    isLoading,          \* FactBrowser state
    factsLoaded,        \* FactBrowser state
    error,              \* FactBrowser state: NoError or an error message
    allFactPaths,       \* FactBrowser state: string[] (sorted)
    visibleFactPaths,   \* FactBrowser state: Set<string>
    viewMode,           \* FactBrowser state: 'list' | 'pivot'
    sortConfig,         \* FactBrowser state: { key, direction }
    showModifiedColumn, \* FactBrowser state
    exported,           \* the text of the last CSV file handed to the browser
    fact,               \* matcher harness: the row under evaluation
    term,               \* matcher harness: the term under evaluation
    verdict,            \* matcher harness: results of the matchers on (fact, term)
    awx                 \* backend: the run of fetchFactsFromAwx (locals, tasks, counters)

vars == <<data, allFacts, searchPills, searchInputValue, isLoading, factsLoaded,
          error, allFactPaths, visibleFactPaths, viewMode, sortConfig,
          showModifiedColumn, exported, fact, term, verdict, awx>>

----------------------------------------------------------------------------
(* JavaScript string primitives                                            *)

S(str) == [i \in 1..Len(str) |-> SubSeq(str, i, i)]

UpperChars == S("ABCDEFGHIJKLMNOPQRSTUVWXYZ")
LowerChars == S("abcdefghijklmnopqrstuvwxyz")
DigitChars == S("0123456789")

IndexIn(c, chars) == CHOOSE i \in 1..Len(chars) : chars[i] = c

LowerChar(c) ==
    IF \E i \in 1..Len(UpperChars) : UpperChars[i] = c
    THEN LowerChars[IndexIn(c, UpperChars)]
    ELSE c

\* String.prototype.toLowerCase
toLowerCase(s) == [i \in 1..Len(s) |-> LowerChar(s[i])]

\* The terms of the model are single-line (the search box is a text input),
\* so the white space that trim() and \s see is the blank and the tab.
IsSpace(c) == c \in {" ", "\t"}

IsDigit(c) == \E i \in 1..Len(DigitChars) : DigitChars[i] = c

\* index of the first non-blank character at or after i (Len(s)+1 if none)
SkipSpaces(s, i) ==
    IF \E j \in i..Len(s) : ~IsSpace(s[j])
    THEN CHOOSE j \in i..Len(s) : ~IsSpace(s[j]) /\ \A k \in i..(j-1) : IsSpace(s[k])
    ELSE Len(s) + 1

\* String.prototype.trim
trim(s) ==
    LET first == SkipSpaces(s, 1)
    IN  IF first > Len(s) THEN <<>>
        ELSE LET last == CHOOSE j \in first..Len(s) :
                            ~IsSpace(s[j]) /\ \A k \in (j+1)..Len(s) : IsSpace(s[k])
             IN  SubSeq(s, first, last)

\* String.prototype.substring(a, b) for 0 <= a, b <= length: the arguments
\* are swapped when a > b (zero-based, end exclusive)
substring(s, a, b) ==
    LET lo == IF a <= b THEN a ELSE b
        hi == IF a <= b THEN b ELSE a
    IN  SubSeq(s, lo + 1, hi)

startsWith(s, p) == Len(p) <= Len(s) /\ SubSeq(s, 1, Len(p)) = p

endsWith(s, p) == Len(p) <= Len(s) /\ SubSeq(s, Len(s) - Len(p) + 1, Len(s)) = p

\* String.prototype.includes
includes(s, p) ==
    \E i \in 0..(Len(s) - Len(p)) : SubSeq(s, i + 1, i + Len(p)) = p

\* String.prototype.split(sep) for a one-character separator
RECURSIVE split(_, _)
split(s, sep) ==
    IF \E i \in 1..Len(s) : s[i] = sep
    THEN LET i == CHOOSE i \in 1..Len(s) : s[i] = sep /\ \A k \in 1..(i-1) : s[k] # sep
         IN  <<SubSeq(s, 1, i - 1)>> \o split(SubSeq(s, i + 1, Len(s)), sep)
    ELSE <<s>>

\* Array.prototype.join(sep)
RECURSIVE join(_, _)
join(parts, sep) ==
    IF Len(parts) = 0 THEN <<>>
    ELSE IF Len(parts) = 1 THEN parts[1]
    ELSE parts[1] \o sep \o join(Tail(parts), sep)

Range(seq) == {seq[i] : i \in 1..Len(seq)}

\* UTF-16 code units of the printable ASCII characters (32..95 and 97..126),
\* for the default comparison of strings
AsciiFrom32 == S(" !\"#$%&'()*+,-./0123456789:;<=>?@ABCDEFGHIJKLMNOPQRSTUVWXYZ[\\]^_")
AsciiFrom97 == S("abcdefghijklmnopqrstuvwxyz{|}~")

CharCode(c) ==
    IF \E i \in 1..Len(AsciiFrom32) : AsciiFrom32[i] = c
    THEN 31 + IndexIn(c, AsciiFrom32)
    ELSE 96 + IndexIn(c, AsciiFrom97)

\* a < b in code-unit order (the default sort comparison of strings)
StringLess(a, b) ==
    \/ (Len(a) < Len(b) /\ SubSeq(b, 1, Len(a)) = a)
    \/ \E i \in 1..(IF Len(a) < Len(b) THEN Len(a) ELSE Len(b)) :
          /\ SubSeq(a, 1, i - 1) = SubSeq(b, 1, i - 1)
          /\ CharCode(a[i]) < CharCode(b[i])



----------------------------------------------------------------------------
(* JSON values and JavaScript coercions                                    *)

JStr(s)  == [t |-> "str", s |-> s]
JNum(n)  == [t |-> "num", n |-> n]
JBool(b) == [t |-> "bool", b |-> b]
JNull    == [t |-> "null"]
JArr(a)  == [t |-> "arr", a |-> a]
JObj(e)  == [t |-> "obj", e |-> e]      \* e: sequence of [k, v], insertion order
Undefined == [t |-> "undefined"]

Entry(k, v) == [k |-> k, v |-> v]

\* JavaScript truthiness (the left operand of &&, the condition of ?:)
Truthy(v) ==
    CASE v.t = "str"  -> Len(v.s) > 0
      [] v.t = "num"  -> v.n # 0
      [] v.t = "bool" -> v.b
      [] v.t = "null" -> FALSE
      [] v.t = "undefined" -> FALSE
      [] OTHER -> TRUE

RECURSIVE NatToString(_)
NatToString(n) ==
    IF n < 10 THEN <<DigitChars[n + 1]>>
    ELSE NatToString(n \div 10) \o <<DigitChars[(n % 10) + 1]>>

\* Number.prototype.toString for the integers of the model
IntToString(n) == IF n < 0 THEN <<"-">> \o NatToString(0 - n) ELSE NatToString(n)

\* String(value) for the values a FactRow can carry (objects and arrays were
\* serialised by the flattener) and for undefined
String(v) ==
    CASE v.t = "str"  -> v.s
      [] v.t = "num"  -> IntToString(v.n)
      [] v.t = "bool" -> IF v.b THEN S("true") ELSE S("false")
      [] v.t = "null" -> S("null")
      [] v.t = "undefined" -> S("undefined")

RECURSIVE QuoteChars(_)
QuoteChars(s) ==
    IF Len(s) = 0 THEN <<>>
    ELSE (IF s[1] \in {"\"", "\\"} THEN <<"\\", s[1]>> ELSE <<s[1]>>)
         \o QuoteChars(Tail(s))

\* JSON.stringify (no indentation)
RECURSIVE JSONstringify(_)
JSONstringify(v) ==
    CASE v.t = "str"  -> <<"\"">> \o QuoteChars(v.s) \o <<"\"">>
      [] v.t = "arr"  ->
            <<"[">> \o join([i \in 1..Len(v.a) |-> JSONstringify(v.a[i])], <<",">>)
                    \o <<"]">>
      [] v.t = "obj"  ->
            <<"{">> \o join([i \in 1..Len(v.e) |->
                                <<"\"">> \o QuoteChars(v.e[i].k) \o <<"\"", ":">>
                                \o JSONstringify(v.e[i].v)], <<",">>)
                    \o <<"}">>
      [] OTHER -> String(v)

----------------------------------------------------------------------------
(* parseFloat                                                              *)

RECURSIVE Pow10(_)
Pow10(n) == IF n = 0 THEN 1 ELSE 10 * Pow10(n - 1)

RECURSIVE DigitsToNat(_)
DigitsToNat(ds) ==
    IF Len(ds) = 0 THEN 0
    ELSE 10 * DigitsToNat(SubSeq(ds, 1, Len(ds) - 1))
         + (IndexIn(ds[Len(ds)], DigitChars) - 1)

\* number of digits of s starting at index i
DigitRun(s, i) ==
    IF \E j \in i..Len(s) : ~IsDigit(s[j])
    THEN (CHOOSE j \in i..Len(s) : ~IsDigit(s[j]) /\ \A k \in i..(j-1) : IsDigit(s[k])) - i
    ELSE IF i > Len(s) THEN 0 ELSE Len(s) - i + 1

NaN == [kind |-> "nan"]

\* the text after an optional sign
Unsigned(t0) == IF Len(t0) > 0 /\ t0[1] \in {"+", "-"} THEN Tail(t0) ELSE t0

\* r has a decimal point after its il integer digits
HasPoint(r, il) == il < Len(r) /\ r[il + 1] = "."

\* the value of the exponent part that follows the p characters of the
\* mantissa of r (0 when there is none: "1e" and "1e+" parse as 1)
ExponentAfter(r, p) ==
    LET hasE   == p < Len(r) /\ r[p + 1] \in {"e", "E"}
        signed == hasE /\ p + 1 < Len(r) /\ r[p + 2] \in {"+", "-"}
        first  == IF signed THEN p + 3 ELSE p + 2
        el     == IF hasE THEN DigitRun(r, first) ELSE 0
    IN  IF el = 0 THEN 0
        ELSE IF r[p + 2] = "-" THEN 0 - DigitsToNat(SubSeq(r, first, first + el - 1))
        ELSE DigitsToNat(SubSeq(r, first, first + el - 1))

\* the decimal literal with il integer digits and fl fraction digits
DecimalLiteral(r, neg, il, fl) ==
    IF startsWith(r, S("Infinity")) THEN [kind |-> "inf", neg |-> neg]
    ELSE IF il = 0 /\ fl = 0 THEN NaN
    ELSE [kind |-> "fin", neg |-> neg,
          m |-> DigitsToNat(SubSeq(r, 1, il) \o SubSeq(r, il + 2, il + 1 + fl)),
          e |-> ExponentAfter(r, IF HasPoint(r, il) THEN il + 1 + fl ELSE il) - fl]

UnsignedLiteral(r, neg, il) ==
    DecimalLiteral(r, neg, il, IF HasPoint(r, il) THEN DigitRun(r, il + 2) ELSE 0)

SignedLiteral(t0) ==
    UnsignedLiteral(Unsigned(t0), Len(t0) > 0 /\ t0[1] = "-", DigitRun(Unsigned(t0), 1))

\* parseFloat: leading white space, sign, Infinity or the longest decimal
\* literal prefix (digits, fraction, exponent); the result is the exact
\* decimal  (neg ? -m : m) * 10^e, which orders short numerals as the
\* doubles they denote.
parseFloat(str) == SignedLiteral(SubSeq(str, SkipSpaces(str, 1), Len(str)))

isNaN(x) == x.kind = "nan"

\* a < b on parsed numbers (neither is NaN)
NumLess(a, b) ==
    IF a.kind = "inf" THEN a.neg /\ ~(b.kind = "inf" /\ b.neg)
    ELSE IF b.kind = "inf" THEN ~b.neg
    ELSE LET k  == IF a.e < b.e THEN a.e ELSE b.e
             sa == (IF a.neg THEN 0 - a.m ELSE a.m) * Pow10(a.e - k)
             sb == (IF b.neg THEN 0 - b.m ELSE b.m) * Pow10(b.e - k)
         IN  sa < sb

----------------------------------------------------------------------------
(* Row Model Builder: flattenFactsForTable                                 *)

ReservedKey == S("__awx_facts_modified_timestamp")
SentinelPath == S("---")
NoDataValue == JStr(S("(No data available)"))

\* obj[key] on a JSON object: the value of the property, or undefined
GetProperty(obj, key) ==
    IF \E i \in 1..Len(obj.e) : obj.e[i].k = key
    THEN obj.e[CHOOSE i \in 1..Len(obj.e) : obj.e[i].k = key].v
    ELSE Undefined

\* flatten without the .filter(([key]) => key !== reserved key) step
RECURSIVE flattenUnfiltered(_, _)
flattenUnfiltered(entries, path) ==
    IF Len(entries) = 0 THEN <<>>
    ELSE LET key     == entries[1].k
             value   == entries[1].v
             newPath == Append(path, key)
             displayValue ==
                 IF Truthy(value) /\ value.t \in {"obj", "arr"}
                 THEN JStr(JSONstringify(value)) ELSE value
             here ==
                 IF Truthy(value) /\ value.t = "obj"
                 THEN flattenUnfiltered(value.e, newPath)
                 ELSE <<[factPath |-> join(newPath, <<".">>), value |-> displayValue]>>
         IN  here \o flattenUnfiltered(Tail(entries), path)

\* the inner flatten(obj, path): Object.entries, the reserved key filtered
\* out at every level, plain objects recursed into, everything else a leaf
RECURSIVE flatten(_, _)
flatten(entries, path) ==
    IF Len(entries) = 0 THEN <<>>
    ELSE LET key     == entries[1].k
             value   == entries[1].v
             newPath == Append(path, key)
             displayValue ==
                 IF Truthy(value) /\ value.t \in {"obj", "arr"}
                 THEN JStr(JSONstringify(value)) ELSE value
             here ==
                 IF key = ReservedKey THEN <<>>
                 ELSE IF Truthy(value) /\ value.t = "obj"
                      THEN flatten(value.e, newPath)
                      ELSE <<[factPath |-> join(newPath, <<".">>), value |-> displayValue]>>
         IN  here \o flatten(Tail(entries), path)

FactRow(id, host, factPath, value, modified) ==
    [id |-> id, host |-> host, factPath |-> factPath, value |-> value,
     modified |-> modified]

\* the rows pushed for one host
HostRows(host, hostFacts) ==
    LET modifiedTimestamp == GetProperty(hostFacts, ReservedKey)
        flattened == flatten(hostFacts.e, <<>>)
    IN  IF Len(flattened) = 0
        THEN <<FactRow(host \o S("-no-facts"), host, SentinelPath, NoDataValue,
                       modifiedTimestamp)>>
        ELSE [i \in 1..Len(flattened) |->
                FactRow(host \o <<"-">> \o flattened[i].factPath, host,
                        flattened[i].factPath, flattened[i].value,
                        modifiedTimestamp)]

\* allHostFacts: sequence of [host, facts] in property order, hosts distinct
RECURSIVE flattenFactsForTable(_)
flattenFactsForTable(allHostFacts) ==
    IF Len(allHostFacts) = 0 THEN <<>>
    ELSE HostRows(allHostFacts[1].host, allHostFacts[1].facts)
         \o flattenFactsForTable(Tail(allHostFacts))

----------------------------------------------------------------------------
(* The backend's count of the rows the frontend will build                 *)

\* the count with the timestamp key counted as a fact
RECURSIVE countLeafNodesWithTimestamp(_)
countLeafNodesWithTimestamp(obj) ==
    IF obj.t \notin {"obj", "arr"} THEN 0
    ELSE IF obj.t = "arr" THEN Len(obj.a)
    ELSE IF Len(obj.e) = 0 THEN 0
    ELSE LET value == obj.e[1].v
         IN  (IF value.t = "obj" THEN countLeafNodesWithTimestamp(value) ELSE 1)
             + countLeafNodesWithTimestamp(JObj(Tail(obj.e)))

\* countLeafNodes of countTotalFacts: for..in over own keys, the timestamp
\* key skipped, plain objects recursed into, everything else counted once;
\* an array given as obj has its indices as keys
RECURSIVE countLeafNodes(_)
countLeafNodes(obj) ==
    IF obj.t \notin {"obj", "arr"} THEN 0
    ELSE IF obj.t = "arr" THEN Len(obj.a)
    ELSE IF Len(obj.e) = 0 THEN 0
    ELSE LET key   == obj.e[1].k
             value == obj.e[1].v
         IN  (IF key = ReservedKey THEN 0
              ELSE IF value.t = "obj" THEN countLeafNodes(value)
              ELSE 1)
             + countLeafNodes(JObj(Tail(obj.e)))

\* countTotalFacts
RECURSIVE countTotalFacts(_)
countTotalFacts(allHostFacts) ==
    IF Len(allHostFacts) = 0 THEN 0
    ELSE LET factCount == countLeafNodes(allHostFacts[1].facts)
         IN  (IF factCount > 1 THEN factCount ELSE 1)
             + countTotalFacts(Tail(allHostFacts))

----------------------------------------------------------------------------
(* Query matcher                                                           *)

\* new RegExp(pattern, 'i') for the patterns of the model: literal
\* characters, '.', '|', '(' and '+'.  An unbalanced '(' is a SyntaxError
\* ("Unterminated group"; there is no ')' in the terms of the model), and so
\* is a '+' at the start of an alternative ("Nothing to repeat"; the terms
\* of the model have no '+' elsewhere).
RegExpCompiles(pattern) ==
    \A i \in 1..Len(pattern) :
        /\ pattern[i] # "("
        /\ pattern[i] = "+" => (i > 1 /\ pattern[i - 1] \notin {"|", "+"})

\* one alternative of the pattern matches str at offset i
AlternativeAt(alt, str, i) ==
    \A j \in 1..Len(alt) :
        alt[j] = "." \/ LowerChar(alt[j]) = LowerChar(str[i + j])

\* regex.test(str): some alternative matches at some offset
RegExpTest(pattern, str) ==
    LET alts == split(pattern, "|")
    IN  \E a \in 1..Len(alts) :
            \E i \in 0..(Len(str) - Len(alts[a])) : AlternativeAt(alts[a], str, i)

\* an operator (!=, >=, <=, >, <, =) begins at index j of s
OperatorAt(s, j) ==
    \/ s[j] \in {">", "<", "="}
    \/ (s[j] = "!" /\ j < Len(s) /\ s[j + 1] = "=")

\* trimmedPill.match(/^(.*?)\s*(!=|>=|<=|>|<|=)\s*(.*)$/) followed by the
\* map(s => s ? s.trim() : ''): the lazy first group ends before the blanks
\* that precede the first operator; the alternatives are tried in order.
operatorRegex(s) ==
    IF ~\E j \in 1..Len(s) : OperatorAt(s, j)
    THEN [matched |-> FALSE]
    ELSE LET j  == CHOOSE j \in 1..Len(s) :
                       OperatorAt(s, j) /\ \A k \in 1..(j-1) : ~OperatorAt(s, k)
             two == j < Len(s) /\ s[j + 1] = "="
             op == CASE s[j] = "!" -> S("!=")
                     [] s[j] = ">" /\ two -> S(">=")
                     [] s[j] = "<" /\ two -> S("<=")
                     [] s[j] = ">" -> S(">")
                     [] s[j] = "<" -> S("<")
                     [] OTHER -> S("=")
         IN  [matched  |-> TRUE,
              key      |-> trim(SubSeq(s, 1, j - 1)),
              operator |-> op,
              value    |-> trim(SubSeq(s, j + Len(op), Len(s)))]

\* the switch (operator) with the relational operators applied to the two
\* strings (no parseFloat): JavaScript then compares them by code units
CompareValueAsStrings(factValue, operator, value) ==
    LET lowerValue == toLowerCase(value)
        factString == String(factValue)
    IN  CASE operator = S("=")  -> toLowerCase(factString) = lowerValue
          [] operator = S("!=") -> toLowerCase(factString) # lowerValue
          [] operator = S(">")  -> StringLess(value, factString)
          [] operator = S("<")  -> StringLess(factString, value)
          [] operator = S(">=") -> ~StringLess(factString, value)
          [] operator = S("<=") -> ~StringLess(value, factString)
          [] OTHER -> FALSE

\* the switch (operator) of both matchers
CompareValue(factValue, operator, value) ==
    LET lowerValue == toLowerCase(value)
    IN  CASE operator = S("=")  -> toLowerCase(String(factValue)) = lowerValue
          [] operator = S("!=") -> toLowerCase(String(factValue)) # lowerValue
          [] OTHER ->
               LET numericFactValue   == parseFloat(String(factValue))
                   numericSearchValue == parseFloat(value)
               IN  IF isNaN(numericFactValue) \/ isNaN(numericSearchValue) THEN FALSE
                   ELSE CASE operator = S(">")  -> NumLess(numericSearchValue, numericFactValue)
                          [] operator = S("<")  -> NumLess(numericFactValue, numericSearchValue)
                          [] operator = S(">=") -> ~NumLess(numericFactValue, numericSearchValue)
                          [] operator = S("<=") -> ~NumLess(numericSearchValue, numericFactValue)
                          [] OTHER -> FALSE

\* the quoted branch of both matchers
ExactMatch(f, trimmed) ==
    LET exactTerm == toLowerCase(substring(trimmed, 1, Len(trimmed) - 1))
    IN  \/ toLowerCase(f.host) = exactTerm
        \/ toLowerCase(f.factPath) = exactTerm
        \/ toLowerCase(String(f.value)) = exactTerm

\* the try/catch branch with a catch block that gives up (returns false)
FreeTextMatchNoFallback(f, trimmed) ==
    /\ RegExpCompiles(trimmed)
    /\ \/ RegExpTest(trimmed, f.host)
       \/ RegExpTest(trimmed, f.factPath)
       \/ RegExpTest(trimmed, String(f.value))
       \/ (Truthy(f.modified) /\ RegExpTest(trimmed, String(f.modified)))

\* the try/catch branch of both matchers
FreeTextMatch(f, trimmed) ==
    IF RegExpCompiles(trimmed)
    THEN \/ RegExpTest(trimmed, f.host)
         \/ RegExpTest(trimmed, f.factPath)
         \/ RegExpTest(trimmed, String(f.value))
         \/ (Truthy(f.modified) /\ RegExpTest(trimmed, String(f.modified)))
    ELSE LET lowercasedFilter == toLowerCase(trimmed)
         IN  \/ includes(toLowerCase(f.host), lowercasedFilter)
             \/ includes(toLowerCase(f.factPath), lowercasedFilter)
             \/ includes(toLowerCase(String(f.value)), lowercasedFilter)
             \/ (Truthy(f.modified)
                    /\ includes(toLowerCase(String(f.modified)), lowercasedFilter))

\* matchesPill without the early return on a factPath that does not end
\* with the key
matchesPillAnyPath(f, pill) ==
    LET trimmedPill == trim(pill)
        match == operatorRegex(trimmedPill)
    IN  IF Len(trimmedPill) = 0 THEN TRUE
        ELSE IF match.matched /\ Len(match.key) > 0 /\ Len(match.value) > 0
        THEN CompareValue(f.value, match.operator, match.value)
        ELSE IF startsWith(trimmedPill, <<"\"">>) /\ endsWith(trimmedPill, <<"\"">>)
        THEN ExactMatch(f, trimmedPill)
        ELSE FreeTextMatch(f, trimmedPill)

\* matchesPill with includes(key) in place of endsWith(key)
matchesPillKeyIncluded(f, pill) ==
    LET trimmedPill == trim(pill)
        match == operatorRegex(trimmedPill)
    IN  IF Len(trimmedPill) = 0 THEN TRUE
        ELSE IF match.matched /\ Len(match.key) > 0 /\ Len(match.value) > 0
        THEN IF ~includes(toLowerCase(f.factPath), toLowerCase(match.key))
             THEN FALSE
             ELSE CompareValue(f.value, match.operator, match.value)
        ELSE IF startsWith(trimmedPill, <<"\"">>) /\ endsWith(trimmedPill, <<"\"">>)
        THEN ExactMatch(f, trimmedPill)
        ELSE FreeTextMatch(f, trimmedPill)

\* FactBrowser.tsx matchesPill (the matcher the page filters with)
matchesPill(f, pill) ==
    LET trimmedPill == trim(pill)
        match == operatorRegex(trimmedPill)
    IN  IF Len(trimmedPill) = 0 THEN TRUE
        ELSE IF match.matched /\ Len(match.key) > 0 /\ Len(match.value) > 0
        THEN IF ~endsWith(toLowerCase(f.factPath), toLowerCase(match.key))
             THEN FALSE
             ELSE CompareValue(f.value, match.operator, match.value)
        ELSE IF startsWith(trimmedPill, <<"\"">>) /\ endsWith(trimmedPill, <<"\"">>)
        THEN ExactMatch(f, trimmedPill)
        ELSE FreeTextMatch(f, trimmedPill)

\* filter.worker.js matchSingleTerm
matchSingleTerm(f, t) ==
    LET trimmedTerm == trim(t)
        match == operatorRegex(trimmedTerm)
    IN  IF Len(trimmedTerm) = 0 THEN FALSE
        ELSE IF match.matched /\ Len(match.key) > 0 /\ Len(match.value) > 0
        THEN LET quoted ==
                     \/ (startsWith(match.value, <<"\"">>) /\ endsWith(match.value, <<"\"">>))
                     \/ (startsWith(match.value, <<"'">>) /\ endsWith(match.value, <<"'">>))
                 value == IF quoted
                          THEN substring(match.value, 1, Len(match.value) - 1)
                          ELSE match.value
                 lowerKey == toLowerCase(match.key)
             IN  IF lowerKey = S("host") \/ lowerKey = S("hostname")
                 THEN CASE match.operator = S("=")  ->
                               toLowerCase(f.host) = toLowerCase(value)
                        [] match.operator = S("!=") ->
                               toLowerCase(f.host) # toLowerCase(value)
                        [] OTHER -> FALSE
                 ELSE IF ~endsWith(toLowerCase(f.factPath), lowerKey)
                 THEN FALSE
                 ELSE CompareValue(f.value, match.operator, value)
        ELSE IF startsWith(trimmedTerm, <<"\"">>) /\ endsWith(trimmedTerm, <<"\"">>)
        THEN ExactMatch(f, trimmedTerm)
        ELSE FreeTextMatch(f, trimmedTerm)

\* filter.worker.js matchesPill
workerMatchesPill(f, pill) ==
    LET trimmedPill == trim(pill)
        orTerms == split(trimmedPill, "|")
    IN  IF Len(trimmedPill) = 0 THEN TRUE
        ELSE \E i \in 1..Len(orTerms) : matchSingleTerm(f, orTerms[i])

\* FactBrowser.tsx matchesLiveSearch
matchesLiveSearch(f, t) ==
    LET lowercasedTerm == toLowerCase(t)
    IN  \/ includes(toLowerCase(f.host), lowercasedTerm)
        \/ includes(toLowerCase(f.factPath), lowercasedTerm)
        \/ includes(toLowerCase(String(f.value)), lowercasedTerm)

----------------------------------------------------------------------------
(* Filter engine: the derived values of FactBrowser                        *)

\* searchPills.some(pill => matchesPill(fact, pill)) in place of every
RECURSIVE everyPillSome(_, _)
everyPillSome(f, pills) ==
    IF Len(pills) = 0 THEN FALSE
    ELSE matchesPill(f, pills[1]) \/ everyPillSome(f, Tail(pills))

\* searchPills.every(pill => matchesPill(fact, pill))
RECURSIVE everyPill(_, _)
everyPill(f, pills) ==
    IF Len(pills) = 0 THEN TRUE
    ELSE matchesPill(f, pills[1]) /\ everyPill(f, Tail(pills))

\* the searchedFacts memo, as a function of the state it depends on
searchedFacts(facts, pills, inputValue) ==
    LET trimmedLiveSearch == trim(inputValue)
        intermediateFacts ==
            IF Len(pills) > 0
            THEN SelectSeq(facts, LAMBDA f : everyPill(f, pills))
            ELSE facts
    IN  IF trimmedLiveSearch = <<>> THEN intermediateFacts
        ELSE SelectSeq(intermediateFacts,
                       LAMBDA f : matchesLiveSearch(f, trimmedLiveSearch))

\* allFilters.every(filter => matchesPill(fact, filter)) in the worker
RECURSIVE workerEvery(_, _)
workerEvery(f, allFilters) ==
    IF Len(allFilters) = 0 THEN TRUE
    ELSE workerMatchesPill(f, allFilters[1]) /\ workerEvery(f, Tail(allFilters))

\* filter.worker.js self.onmessage: the array it posts back
workerOnMessage(facts, allFilters) ==
    SelectSeq(facts, LAMBDA f : workerEvery(f, allFilters))

\* [...new Set(array)]: first occurrences, in order
RECURSIVE uniq(_)
uniq(seq) ==
    IF Len(seq) = 0 THEN <<>>
    ELSE LET front == uniq(SubSeq(seq, 1, Len(seq) - 1))
             last  == seq[Len(seq)]
         IN  IF last \in Range(front) THEN front ELSE Append(front, last)

\* Array.from(set).sort()
RECURSIVE sortStrings(_)
sortStrings(set) ==
    IF set = {} THEN <<>>
    ELSE LET least == CHOOSE x \in set : \A y \in set \ {x} : StringLess(x, y)
         IN  <<least>> \o sortStrings(set \ {least})

\* the uniqueFactPaths of handleLoadFacts
uniqueFactPaths(flattenedData) ==
    sortStrings({flattenedData[i].factPath : i \in 1..Len(flattenedData)}
                \ {SentinelPath})

----------------------------------------------------------------------------
(* JavaScript library behaviour used by the projections and the sort       *)

\* key is an array index ("0", "7", "10": a canonical decimal numeral below
\* 2^32 - 1); such property names are enumerated first, in numeric order.
\* The keys of the model have fewer than ten characters, so no numeral
\* reaches the limit.
IsArrayIndex(key) ==
    /\ Len(key) \in 1..9
    /\ \A i \in 1..Len(key) : IsDigit(key[i])
    /\ (key[1] = "0" => Len(key) = 1)

\* the array indices among keys, in ascending numeric order
RECURSIVE IndexKeysAscending(_)
IndexKeysAscending(keys) ==
    IF keys = {} THEN <<>>
    ELSE LET least == CHOOSE k \in keys :
                         \A other \in keys : DigitsToNat(k) <= DigitsToNat(other)
         IN  <<least>> \o IndexKeysAscending(keys \ {least})

\* the order in which Object.keys / Object.values / for-in enumerate the
\* own properties that were created in the order inserted (distinct keys)
OwnPropertyKeys(inserted) ==
    IndexKeysAscending({k \in Range(inserted) : IsArrayIndex(k)})
    \o SelectSeq(inserted, LAMBDA k : ~IsArrayIndex(k))

\* Collation (localeCompare with { numeric: true, sensitivity: 'base' }) for
\* the characters of the model: blank and punctuation sort before digits,
\* digits before letters; letters compare without case; a run of digits
\* compares by its number.
CollationPunctuation == S(" _-.()")

CollationClass(c) ==
    IF IsDigit(c) THEN 2
    ELSE IF \E i \in 1..Len(CollationPunctuation) : CollationPunctuation[i] = c THEN 1
    ELSE 3

\* the primary weight of a character that is not a digit
CollationWeight(c) ==
    IF CollationClass(c) = 1 THEN IndexIn(c, CollationPunctuation)
    ELSE 100 + IndexIn(LowerChar(c), LowerChars)

\* the collation elements of a string: one per digit run, one per other
\* character
RECURSIVE CollationElements(_)
CollationElements(str) ==
    IF Len(str) = 0 THEN <<>>
    ELSE IF IsDigit(str[1])
    THEN LET n == DigitRun(str, 1)
         IN  <<[class |-> 2, weight |-> DigitsToNat(SubSeq(str, 1, n))]>>
             \o CollationElements(SubSeq(str, n + 1, Len(str)))
    ELSE <<[class |-> CollationClass(str[1]), weight |-> CollationWeight(str[1])]>>
         \o CollationElements(Tail(str))

ElementLess(x, y) ==
    x.class < y.class \/ (x.class = y.class /\ x.weight < y.weight)

RECURSIVE CompareElements(_, _)
CompareElements(xs, ys) ==
    IF Len(xs) = 0 THEN (IF Len(ys) = 0 THEN 0 ELSE -1)
    ELSE IF Len(ys) = 0 THEN 1
    ELSE IF ElementLess(xs[1], ys[1]) THEN -1
    ELSE IF ElementLess(ys[1], xs[1]) THEN 1
    ELSE CompareElements(Tail(xs), Tail(ys))

\* a.localeCompare(b, undefined, { numeric: true, sensitivity: 'base' })
localeCompare(a, b) == CompareElements(CollationElements(a), CollationElements(b))

\* days from 1970-01-01 to the civil date y-m-d
DaysFromCivil(y, m, d) ==
    LET yy  == IF m <= 2 THEN y - 1 ELSE y
        era == yy \div 400
        yoe == yy - era * 400
        mp  == IF m > 2 THEN m - 3 ELSE m + 9
        doy == (153 * mp + 2) \div 5 + d - 1
        doe == yoe * 365 + yoe \div 4 - yoe \div 100 + doy
    IN  era * 146097 + doe - 719468

\* str is YYYY-MM-DDTHH:MM:SSZ
IsUtcTimestamp(str) ==
    /\ Len(str) = 20
    /\ \A i \in {1, 2, 3, 4, 6, 7, 9, 10, 12, 13, 15, 16, 18, 19} : IsDigit(str[i])
    /\ str[5] = "-" /\ str[8] = "-" /\ str[11] = "T"
    /\ str[14] = ":" /\ str[17] = ":" /\ str[20] = "Z"
    /\ DigitsToNat(SubSeq(str, 6, 7)) \in 1..12
    /\ DigitsToNat(SubSeq(str, 9, 10)) \in 1..28
    /\ DigitsToNat(SubSeq(str, 12, 13)) < 24
    /\ DigitsToNat(SubSeq(str, 15, 16)) < 60
    /\ DigitsToNat(SubSeq(str, 18, 19)) < 60

\* (new Date(str).getTime() || 0) in seconds, for the modified values of the
\* model: a UTC timestamp of the form above, or a text that is no date (NaN,
\* hence 0)
TimeOrZero(str) ==
    IF IsUtcTimestamp(str)
    THEN DaysFromCivil(DigitsToNat(SubSeq(str, 1, 4)), DigitsToNat(SubSeq(str, 6, 7)),
                       DigitsToNat(SubSeq(str, 9, 10))) * 86400
         + DigitsToNat(SubSeq(str, 12, 13)) * 3600
         + DigitsToNat(SubSeq(str, 15, 16)) * 60
         + DigitsToNat(SubSeq(str, 18, 19))
    ELSE 0

\* Array.prototype.sort(comparefn) is stable: each item is placed after the
\* last item it does not sort before.  comparefn[a, b] > 0 means a after b;
\* comparefn is the comparator as a function on the pairs of items.
InsertSorted(sorted, item, comparefn) ==
    LET after == {k \in 1..Len(sorted) : comparefn[sorted[k], item] <= 0}
        at    == IF after = {} THEN 0
                 ELSE CHOOSE k \in after : \A j \in after : j <= k
    IN  SubSeq(sorted, 1, at) \o <<item>> \o SubSeq(sorted, at + 1, Len(sorted))

sort(items, comparefn) ==
    LET placed[n \in 0..Len(items)] ==
            IF n = 0 THEN <<>>
            ELSE InsertSorted(placed[n - 1], items[n], comparefn)
    IN  placed[Len(items)]

----------------------------------------------------------------------------
(* The derived views of FactBrowser: visibility, dashboard, pivot, sort    *)

\* visibleFactPaths.has(fact.factPath) || fact.factPath === '---'
KeepVisible(facts, visible) ==
    SelectSeq(facts, LAMBDA f : f.factPath \in visible \/ f.factPath = SentinelPath)

\* the shortcut taken as soon as the visible set is no larger than the path list
AllPathsVisibleAtMost(paths, visible) ==
    Len(paths) > 0 /\ Cardinality(visible) <= Len(paths)

\* allFactPaths.length > 0 && visibleFactPaths.size === allFactPaths.length
AllPathsVisible(paths, visible) == Len(paths) > 0 /\ Cardinality(visible) = Len(paths)

\* the filteredFacts memo
filteredFacts(searched, paths, visible) ==
    IF AllPathsVisible(paths, visible) THEN searched ELSE KeepVisible(searched, visible)

\* searchPills.length > 0 || searchInputValue.trim() !== ''
SearchActive(pills, inputValue) == Len(pills) > 0 \/ trim(inputValue) # <<>>

\* new Set(searchedFacts.map(fact => fact.host))
matchingHostnames(searched) == {searched[i].host : i \in 1..Len(searched)}

\* allFacts.filter(fact => matchingHostnames.has(fact.host))
allFactsForMatchingHosts(facts, pills, inputValue) ==
    SelectSeq(facts, LAMBDA f :
        f.host \in matchingHostnames(searchedFacts(facts, pills, inputValue)))

\* the dashboard computed from the rows of the visible columns only
dashboardFactsOfVisibleColumns(facts, pills, inputValue) ==
    LET shown == KeepVisible(searchedFacts(facts, pills, inputValue), visibleFactPaths)
    IN  IF SearchActive(pills, inputValue)
        THEN SelectSeq(facts, LAMBDA f : f.host \in matchingHostnames(shown))
        ELSE facts

\* the dashboardFacts memo
dashboardFacts(facts, pills, inputValue) ==
    IF SearchActive(pills, inputValue)
    THEN allFactsForMatchingHosts(facts, pills, inputValue)
    ELSE facts

\* the pivotViewFilteredFacts memo
pivotViewFilteredFacts(mode, facts, pills, inputValue, paths, visible) ==
    IF mode # "pivot" \/ ~SearchActive(pills, inputValue)
    THEN filteredFacts(searchedFacts(facts, pills, inputValue), paths, visible)
    ELSE IF AllPathsVisible(paths, visible)
    THEN allFactsForMatchingHosts(facts, pills, inputValue)
    ELSE KeepVisible(allFactsForMatchingHosts(facts, pills, inputValue), visible)

\* obj[key] = value on the entries of an object: an existing property keeps
\* its place, a new one is added last
SetProperty(entries, key, value) ==
    IF \E i \in 1..Len(entries) : entries[i].k = key
    THEN [i \in 1..Len(entries) |->
            IF entries[i].k = key THEN Entry(key, value) ELSE entries[i]]
    ELSE Append(entries, Entry(key, value))

\* the values of an object listed in the code-unit order of their keys
ObjectValuesByKey(entries) ==
    LET keys == sortStrings({entries[i].k : i \in 1..Len(entries)})
    IN  [n \in 1..Len(keys) |-> GetProperty(JObj(entries), keys[n])]

\* Object.values(obj)
ObjectValues(entries) ==
    LET keys == OwnPropertyKeys([i \in 1..Len(entries) |-> entries[i].k])
    IN  [n \in 1..Len(keys) |-> GetProperty(JObj(entries), keys[n])]

\* hostsData after the forEach of pivotFactsForExport: the properties of the
\* object in the order created.  (The host names of the model are not names
\* of properties that every object inherits.)
hostsData(facts) ==
    LET seen[n \in 0..Len(facts)] ==
            IF n = 0 THEN <<>>
            ELSE IF facts[n].factPath = SentinelPath THEN seen[n - 1]
            ELSE LET host == facts[n].host
                     withHost ==
                         IF Truthy(GetProperty(JObj(seen[n - 1]), host)) THEN seen[n - 1]
                         ELSE SetProperty(seen[n - 1], host,
                                          JObj(<<Entry(S("hostname"), JStr(host))>>))
                     record == GetProperty(JObj(withHost), host)
                 IN  SetProperty(withHost, host,
                                 JObj(SetProperty(record.e, facts[n].factPath,
                                                  facts[n].value)))
    IN  seen[Len(facts)]

\* the fact paths in the order of their first row
RECURSIVE PathsAsMet(_)
PathsAsMet(facts) ==
    IF facts = <<>> THEN <<>>
    ELSE LET before == PathsAsMet(SubSeq(facts, 1, Len(facts) - 1))
             path   == facts[Len(facts)].factPath
         IN  IF path = SentinelPath \/ path \in Range(before) THEN before
             ELSE Append(before, path)

\* the projection with the header list left unsorted
pivotFactsForExportUnsorted(facts) ==
    IF Len(facts) = 0 THEN [data |-> <<>>, headers |-> <<>>]
    ELSE [data    |-> ObjectValues(hostsData(facts)),
          headers |-> <<S("hostname")>> \o PathsAsMet(facts)]

\* pivotFactsForExport
pivotFactsForExport(facts) ==
    IF Len(facts) = 0 THEN [data |-> <<>>, headers |-> <<>>]
    ELSE [data    |-> ObjectValues(hostsData(facts)),
          headers |-> <<S("hostname")>>
                      \o sortStrings({facts[i].factPath : i \in 1..Len(facts)}
                                     \ {SentinelPath})]

\* a[key] on a FactRow
RowField(row, key) ==
    CASE key = S("id")       -> JStr(row.id)
      [] key = S("host")     -> JStr(row.host)
      [] key = S("factPath") -> JStr(row.factPath)
      [] key = S("value")    -> row.value
      [] key = S("modified") -> row.modified
      [] OTHER               -> Undefined

\* val == null
IsNullish(v) == v.t \in {"null", "undefined"}

\* the comparator with the direction applied to the null checks as well
OrderValuesNullsFlipped(valA, valB, config, comparison) ==
    LET ascending ==
            IF IsNullish(valA) /\ IsNullish(valB) THEN 0
            ELSE IF IsNullish(valA) THEN 1
            ELSE IF IsNullish(valB) THEN -1
            ELSE comparison
    IN  IF config.direction = "ascending" THEN ascending ELSE 0 - ascending

\* the null checks and the direction of both comparators
OrderValues(valA, valB, config, comparison) ==
    IF IsNullish(valA) /\ IsNullish(valB) THEN 0
    ELSE IF IsNullish(valA) THEN 1
    ELSE IF IsNullish(valB) THEN -1
    ELSE IF config.direction = "ascending" THEN comparison ELSE 0 - comparison

\* the comparator of sortedListFacts
compareFacts(a, b, config) ==
    LET valA == RowField(a, config.key)
        valB == RowField(b, config.key)
    IN  OrderValues(valA, valB, config,
            IF config.key = S("modified")
            THEN TimeOrZero(String(valA)) - TimeOrZero(String(valB))
            ELSE localeCompare(String(valA), String(valB)))

\* a sort that is not stable: equal items come out in reverse input order
sortedListFactsTiesReversed(mode, config, filtered) ==
    IF mode # "list" THEN <<>>
    ELSE IF config = JNull THEN filtered
    ELSE sort([n \in 1..Len(filtered) |-> filtered[Len(filtered) + 1 - n]],
              [a \in Range(filtered), b \in Range(filtered) |-> compareFacts(a, b, config)])

\* the sortedListFacts memo
sortedListFacts(mode, config, filtered) ==
    IF mode # "list" THEN <<>>
    ELSE IF config = JNull THEN filtered
    ELSE sort(filtered,
              [a \in Range(filtered), b \in Range(filtered) |-> compareFacts(a, b, config)])

\* the comparator of sortedPivotedData
compareRecords(a, b, config) ==
    LET valA == GetProperty(a, config.key)
        valB == GetProperty(b, config.key)
    IN  OrderValues(valA, valB, config, localeCompare(String(valA), String(valB)))

\* the sortedPivotedData memo
sortedPivotedData(mode, config, pivoted) ==
    IF mode # "pivot" \/ config = JNull THEN pivoted
    ELSE [data    |-> sort(pivoted.data,
                           [a \in Range(pivoted.data), b \in Range(pivoted.data) |->
                               compareRecords(a, b, config)]),
          headers |-> pivoted.headers]

\* the sort applied to the array it was given instead of a copy
ArrayAfterSortInPlace(items, sorted) == sorted

\* sortableItems = [...filteredFacts]: the sort works on a copy, the array
\* it was given (items) is what it was, whatever the copy (sorted) becomes
ArrayAfterSort(items, sorted) == items

\* allFacts after the render that follows a state change: filteredFacts is
\* the allFacts array itself when no pill, no live term and no hidden path
\* make searchedFacts and filteredFacts build a new array
allFactsAfterRender(facts, pills, inputValue, paths, visible, mode, config) ==
    IF /\ mode = "list"
       /\ config # JNull
       /\ ~SearchActive(pills, inputValue)
       /\ AllPathsVisible(paths, visible)
    THEN ArrayAfterSort(facts, sortedListFacts(mode, config, facts))
    ELSE facts

----------------------------------------------------------------------------
(* The CSV export                                                          *)

\* the dataForExport memo: the headers and the records to export
dataForExport(mode, showModified, sortedList, sortedPivot) ==
    IF mode = "list"
    THEN [headers |-> <<S("host"), S("factPath"), S("value")>>
                      \o (IF showModified THEN <<S("modified")>> ELSE <<>>),
          data    |-> [n \in 1..Len(sortedList) |->
                          JObj(<<Entry(S("host"), JStr(sortedList[n].host)),
                                 Entry(S("factPath"), JStr(sortedList[n].factPath)),
                                 Entry(S("value"), sortedList[n].value)>>
                               \o (IF showModified
                                   THEN <<Entry(S("modified"), sortedList[n].modified)>>
                                   ELSE <<>>))]]
    ELSE sortedPivot

\* str.replace(/"/g, '""')
RECURSIVE DoubleQuotes(_)
DoubleQuotes(str) ==
    IF str = <<>> THEN <<>>
    ELSE (IF Head(str) = "\"" THEN <<"\"", "\"">> ELSE <<Head(str)>>)
         \o DoubleQuotes(Tail(str))

\* escapeCsv of handleExportCSV
escapeCsv(val) ==
    IF val = JNull \/ val = Undefined THEN <<>>
    ELSE LET str == String(val)
         IN  IF \E i \in 1..Len(str) : str[i] \in {"\"", ",", "\n", "\r"}
             THEN <<"\"">> \o DoubleQuotes(str) \o <<"\"">>
             ELSE str

\* csvString of handleExportCSV
csvString(projection) ==
    LET headers == projection.headers
        csvRows ==
            <<join(headers, <<",">>)>>
            \o [n \in 1..Len(projection.data) |->
                  join([h \in 1..Len(headers) |->
                           escapeCsv(GetProperty(projection.data[n], headers[h]))],
                       <<",">>)]
    IN  join(csvRows, <<"\n">>)

----------------------------------------------------------------------------
(* Inputs of the page model                                                *)

MaxPills == 2          \* pills the search bar holds in the model

NoError == JNull
NoResponse == [status |-> "none"]
Rejected == [status |-> "err", message |-> S("Failed to fetch data.")]
Resolved(body) == [status |-> "ok", body |-> body]

Host(h, e) == [host |-> h, facts |-> JObj(e)]

\* the embedded demo data, abridged to three facts per host
DemoData ==
    << Host(S("demo-web-1"),
            << Entry(ReservedKey, JStr(S("2024-05-20T10:00:00Z"))),
               Entry(S("ansible_distribution"), JStr(S("Rocky Linux"))),
               Entry(S("ansible_processor_vcpus"), JNum(2)),
               Entry(S("packages"), JObj(<< Entry(S("nginx"), JStr(S("1.24.0"))) >>)) >>),
       Host(S("demo-db-1"),
            << Entry(ReservedKey, JStr(S("2024-05-21T11:30:00Z"))),
               Entry(S("ansible_distribution"), JStr(S("Ubuntu"))),
               Entry(S("ansible_processor_vcpus"), JNum(4)) >>),
       Host(S("demo-dev-1"),
            << Entry(ReservedKey, JStr(S("2024-05-19T09:45:00Z"))),
               Entry(S("ansible_distribution"), JStr(S("Fedora"))),
               Entry(S("ansible_processor_vcpus"), JNum(8)),
               Entry(S("users"), JArr(<< JStr(S("alice")), JStr(S("bob")) >>)) >>) >>

\* one host with a distribution, a vcpu count and a note
UbuntuHost ==
    << Host(S("h1"),
            << Entry(S("ansible_distribution"), JStr(S("Ubuntu"))),
               Entry(S("ansible_processor_vcpus"), JNum(8)),
               Entry(S("custom_distribution_note"), JStr(S("Ubuntu"))) >>) >>

\* a host without facts, then hosts b and a with one fact each
RoleHosts ==
    << Host(S("h0"), << >>),
       Host(S("b"), << Entry(S("role"), JStr(S("web"))) >>),
       Host(S("a"), << Entry(S("role"), JStr(S("db"))) >>) >>

LoadableSnapshots == {DemoData, UbuntuHost, RoleHosts}

\* what the operator types into the search box
TypedInputs ==
    { S("distribution=Ubuntu"), S("ansible_processor_vcpus>4"), S("\"demo-dev-1\""),
      S("host=h1"), S("role"), S("2024"), S(" ubuntu|rocky "), S(" ") }

----------------------------------------------------------------------------
(* The page: FactBrowser and SearchBar handlers                            *)

\* the initial values of the view state; nothing has been exported
\* the backend has no AWX fetch running
BackendIdle == awx = [pc |-> "idle"]

ViewIdle ==
    /\ viewMode = "list"
    /\ sortConfig = [key |-> S("host"), direction |-> "ascending"]
    /\ showModifiedColumn = FALSE
    /\ exported = Undefined

MatcherIdle ==
    /\ fact = Undefined
    /\ term = <<>>
    /\ verdict = [done |-> FALSE]

Init ==
    /\ data = NoResponse
    /\ allFacts = <<>>
    /\ searchPills = <<>>
    /\ searchInputValue = <<>>
    /\ isLoading = FALSE
    /\ factsLoaded = FALSE
    /\ error = NoError
    /\ allFactPaths = <<>>
    /\ visibleFactPaths = {}
    /\ ViewIdle
    /\ BackendIdle
    /\ MatcherIdle

\* the start of a load that leaves the rows of the previous snapshot in place
LoadStartKeepsRows(response) ==
    /\ ~isLoading
    /\ isLoading' = TRUE
    /\ error' = NoError
    /\ factsLoaded' = TRUE
    /\ data' = response
    /\ UNCHANGED <<allFacts, searchPills, searchInputValue, allFactPaths,
                   visibleFactPaths, fact, term, verdict, viewMode, sortConfig,
                   showModifiedColumn, exported, awx>>

\* handleLoadFacts up to its await: the button is disabled while loading;
\* response is what the fetch will settle with
LoadStart(response) ==
    /\ ~isLoading
    /\ isLoading' = TRUE
    /\ error' = NoError
    /\ allFacts' = <<>>
    /\ factsLoaded' = TRUE
    /\ data' = response
    /\ UNCHANGED <<searchPills, searchInputValue, allFactPaths, visibleFactPaths,
                   fact, term, verdict, viewMode, sortConfig,
                   showModifiedColumn, exported,
                   awx>>

\* the load that leaves the visible set of the previous snapshot in place
LoadResolveKeepsVisible ==
    /\ isLoading
    /\ data.status = "ok"
    /\ LET flattenedData == flattenFactsForTable(data.body)
       IN  /\ allFacts' = flattenedData
           /\ allFactPaths' = uniqueFactPaths(flattenedData)
    /\ isLoading' = FALSE
    /\ UNCHANGED <<data, searchPills, searchInputValue, factsLoaded, error,
                   visibleFactPaths, fact, term, verdict, viewMode, sortConfig,
                   showModifiedColumn, exported, awx>>

\* handleLoadFacts after the await, the fetch fulfilled
LoadResolve ==
    /\ isLoading
    /\ data.status = "ok"
    /\ LET flattenedData == flattenFactsForTable(data.body)
       IN  /\ allFacts' = flattenedData
           /\ allFactPaths' = uniqueFactPaths(flattenedData)
           /\ visibleFactPaths' = Range(uniqueFactPaths(flattenedData))
    /\ isLoading' = FALSE
    /\ UNCHANGED <<data, searchPills, searchInputValue, factsLoaded, error,
                   fact, term, verdict, viewMode, sortConfig,
                   showModifiedColumn, exported,
                   awx>>

\* handleLoadFacts after the await, the fetch rejected
LoadReject ==
    /\ isLoading
    /\ data.status = "err"
    /\ error' = JStr(data.message)
    /\ isLoading' = FALSE
    /\ UNCHANGED <<data, allFacts, searchPills, searchInputValue, factsLoaded,
                   allFactPaths, visibleFactPaths, fact, term, verdict,
                   viewMode, sortConfig, showModifiedColumn, exported,
                   awx>>

\* the search bar is rendered once facts are loaded, no load is running and
\* no error is shown
SearchBarShown == factsLoaded /\ ~isLoading /\ error = NoError

\* SearchBar input onChange
setSearchInputValue(value) ==
    /\ SearchBarShown
    /\ searchInputValue' = value
    /\ UNCHANGED <<data, allFacts, searchPills, isLoading, factsLoaded, error,
                   allFactPaths, visibleFactPaths, fact, term, verdict,
                   viewMode, sortConfig, showModifiedColumn, exported,
                   awx>>

\* SearchBar handleKeyDown, Enter with a non-blank input
EnterKey ==
    /\ SearchBarShown
    /\ trim(searchInputValue) # <<>>
    /\ Len(searchPills) < MaxPills
    /\ searchPills' = uniq(Append(searchPills, trim(searchInputValue)))
    /\ searchInputValue' = <<>>
    /\ UNCHANGED <<data, allFacts, isLoading, factsLoaded, error,
                   allFactPaths, visibleFactPaths, fact, term, verdict,
                   viewMode, sortConfig, showModifiedColumn, exported,
                   awx>>

\* SearchBar handleKeyDown, Backspace on an empty input
BackspaceKey ==
    /\ SearchBarShown
    /\ searchInputValue = <<>>
    /\ Len(searchPills) > 0
    /\ searchPills' = SubSeq(searchPills, 1, Len(searchPills) - 1)
    /\ UNCHANGED <<data, allFacts, searchInputValue, isLoading, factsLoaded, error,
                   allFactPaths, visibleFactPaths, fact, term, verdict,
                   viewMode, sortConfig, showModifiedColumn, exported,
                   awx>>

\* pills.filter(pill => pill !== pillToRemove)
withoutPill(pills, pillToRemove) == SelectSeq(pills, LAMBDA pill : pill # pillToRemove)

\* SearchBar handleRemovePill
handleRemovePill(pillToRemove) ==
    /\ SearchBarShown
    /\ searchPills' = withoutPill(searchPills, pillToRemove)
    /\ UNCHANGED <<data, allFacts, searchInputValue, isLoading, factsLoaded, error,
                   allFactPaths, visibleFactPaths, fact, term, verdict,
                   viewMode, sortConfig, showModifiedColumn, exported,
                   awx>>

Next ==
    \/ \E body \in LoadableSnapshots : LoadStart(Resolved(body))
    \/ LoadStart(Rejected)
    \/ LoadResolve
    \/ LoadReject
    \/ \E value \in TypedInputs \cup {<<>>} : setSearchInputValue(value)
    \/ EnterKey
    \/ BackspaceKey
    \/ \E i \in 1..Len(searchPills) : handleRemovePill(searchPills[i])

Spec == Init /\ [][Next]_vars

----------------------------------------------------------------------------
(* The page with its views: column visibility, view mode and sort          *)

\* hosts "9" and "10" (array indices, enumerated first), b and a with equal
\* roles up to case, a null fact, a host without facts, modified times that
\* are a date, another date, no date, or absent
MixedHosts ==
    << Host(S("9"),  << Entry(ReservedKey, JStr(S("never"))),
                        Entry(S("role"), JStr(S("db"))) >>),
       Host(S("10"), << Entry(S("role"), JStr(S("db"))),
                        Entry(S("Env"), JNull) >>),
       Host(S("b"),  << Entry(ReservedKey, JStr(S("2024-05-21T11:30:00Z"))),
                        Entry(S("role"), JStr(S("web"))) >>),
       Host(S("a"),  << Entry(ReservedKey, JStr(S("2024-05-20T10:00:00Z"))),
                        Entry(S("role"), JStr(S("Web"))),
                        Entry(S("cpus"), JNum(4)) >>),
       Host(S("h0"), << >>) >>

\* a single host without facts
NoFactsHost == << Host(S("h0"), << >>) >>

ViewSnapshots == {MixedHosts, NoFactsHost}

\* what the operator types into the search box
ViewInputs == { S("role=web"), S("1") }

DefaultSort(mode) ==
    [key |-> IF mode = "list" THEN S("host") ELSE S("hostname"),
     direction |-> "ascending"]

\* the rows of the list view
listRows ==
    sortedListFacts(viewMode, sortConfig,
        filteredFacts(searchedFacts(allFacts, searchPills, searchInputValue),
                      allFactPaths, visibleFactPaths))

\* the pivotedData memo
pivotedData ==
    pivotFactsForExport(
        pivotViewFilteredFacts(viewMode, allFacts, searchPills, searchInputValue,
                               allFactPaths, visibleFactPaths))

\* the records and headers of the pivot view
pivotTable == sortedPivotedData(viewMode, sortConfig, pivotedData)

\* the column headers that can be clicked: those of the table on display,
\* which has no header row when it has nothing to show
SortableHeaders ==
    IF viewMode = "list"
    THEN IF Len(listRows) = 0 THEN {}
         ELSE {S("host"), S("factPath"), S("value")}
              \cup (IF showModifiedColumn THEN {S("modified")} ELSE {})
    ELSE IF Len(pivotTable.data) = 0 THEN {}
         ELSE Range(pivotTable.headers)

\* handleRequestSort, and the render that follows
handleRequestSort(key) ==
    /\ SearchBarShown
    /\ sortConfig' =
          [key |-> key,
           direction |-> IF /\ sortConfig # JNull
                            /\ sortConfig.key = key
                            /\ sortConfig.direction = "ascending"
                         THEN "descending" ELSE "ascending"]
    /\ allFacts' = allFactsAfterRender(allFacts, searchPills, searchInputValue,
                                       allFactPaths, visibleFactPaths, viewMode,
                                       sortConfig')
    /\ UNCHANGED <<data, searchPills, searchInputValue, isLoading, factsLoaded, error,
                   allFactPaths, visibleFactPaths, viewMode, showModifiedColumn,
                   exported, fact, term, verdict,
                   awx>>

\* ViewSwitcher onViewModeChange with the effect on [viewMode] that resets
\* the sort, and the render that follows
setViewMode(mode) ==
    /\ SearchBarShown
    /\ mode # viewMode
    /\ viewMode' = mode
    /\ sortConfig' = DefaultSort(mode)
    /\ allFacts' = allFactsAfterRender(allFacts, searchPills, searchInputValue,
                                       allFactPaths, visibleFactPaths, mode,
                                       DefaultSort(mode))
    /\ UNCHANGED <<data, searchPills, searchInputValue, isLoading, factsLoaded, error,
                   allFactPaths, visibleFactPaths, showModifiedColumn,
                   exported, fact, term, verdict,
                   awx>>

\* a change of visibleFactPaths and the render that follows
setVisibleFactPaths(visible) ==
    /\ SearchBarShown
    /\ visibleFactPaths' = visible
    /\ allFacts' = allFactsAfterRender(allFacts, searchPills, searchInputValue,
                                       allFactPaths, visible, viewMode, sortConfig)
    /\ UNCHANGED <<data, searchPills, searchInputValue, isLoading, factsLoaded, error,
                   allFactPaths, viewMode, sortConfig, showModifiedColumn,
                   exported, fact, term, verdict,
                   awx>>

\* FactFilter onVisibilityChange (a checkbox of one of allFactPaths)
onVisibilityChange(path, isVisible) ==
    setVisibleFactPaths(IF isVisible THEN visibleFactPaths \cup {path}
                        ELSE visibleFactPaths \ {path})

\* FactFilter onSelectAll
onSelectAll == setVisibleFactPaths(Range(allFactPaths))

\* FactFilter onSelectNone
onSelectNone == setVisibleFactPaths({})

\* handleRemoveFactPath (the remove button of a pivot column)
handleRemoveFactPath(pathToRemove) ==
    setVisibleFactPaths(visibleFactPaths \ {pathToRemove})

\* SearchBar onToggleModifiedColumn
onToggleModifiedColumn ==
    /\ SearchBarShown
    /\ showModifiedColumn' = ~showModifiedColumn
    /\ UNCHANGED <<data, allFacts, searchPills, searchInputValue, isLoading,
                   factsLoaded, error, allFactPaths, visibleFactPaths, viewMode,
                   sortConfig, exported, fact, term, verdict,
                   awx>>

NextView ==
    \/ \E body \in ViewSnapshots : LoadStart(Resolved(body))
    \/ LoadResolve
    \/ \E value \in ViewInputs \cup {<<>>} : setSearchInputValue(value)
    \/ EnterKey
    \/ \E i \in 1..Len(searchPills) : handleRemovePill(searchPills[i])
    \/ \E key \in SortableHeaders : handleRequestSort(key)
    \/ \E mode \in {"list", "pivot"} : setViewMode(mode)
    \/ \E path \in Range(allFactPaths), isVisible \in BOOLEAN :
          onVisibilityChange(path, isVisible)
    \/ onSelectAll
    \/ onSelectNone
    \/ \E path \in Range(pivotTable.headers) \ {S("hostname")} :
          viewMode = "pivot" /\ Len(pivotTable.data) > 0 /\ handleRemoveFactPath(path)
    \/ onToggleModifiedColumn

SpecView == Init /\ [][NextView]_vars

----------------------------------------------------------------------------
(* The page exporting CSV                                                  *)

\* plain fact names; values with a comma, a quote, a line feed, a carriage
\* return, a null and a number
OddValues ==
    << Host(S("h1"), << Entry(S("os"),   JStr(S("a,b"))),
                        Entry(S("say"),  JStr(S("x\"y"))),
                        Entry(S("motd"), JStr(S("l\nm\rn"))) >>),
       Host(S("h2"), << Entry(S("os"),   JNull),
                        Entry(S("n"),    JNum(4)) >>) >>

\* fact names with a comma and with a quote
OddNames ==
    << Host(S("h1"), << Entry(S("a,b"),  JStr(S("1"))),
                        Entry(S("q\"t"), JStr(S("2"))) >>) >>

\* a host that reports a fact named hostname
HostnameFact ==
    << Host(S("web1"), << Entry(S("hostname"), JStr(S("node7"))),
                          Entry(S("role"),     JStr(S("web"))) >>) >>

CsvSnapshots == {OddValues, OddNames, HostnameFact}

\* what the export is made from in the current state
Projection == dataForExport(viewMode, showModifiedColumn, listRows, pivotTable)

\* handleExportCSV: the text handed to the browser for download
handleExportCSV ==
    /\ SearchBarShown
    /\ Len(Projection.data) # 0
    /\ exported' = JStr(csvString(Projection))
    /\ UNCHANGED <<data, allFacts, searchPills, searchInputValue, isLoading,
                   factsLoaded, error, allFactPaths, visibleFactPaths, viewMode,
                   sortConfig, showModifiedColumn, fact, term, verdict,
                   awx>>

NextCsv ==
    \/ \E body \in CsvSnapshots : LoadStart(Resolved(body))
    \/ LoadResolve
    \/ \E mode \in {"list", "pivot"} : setViewMode(mode)
    \/ \E path \in Range(allFactPaths), isVisible \in BOOLEAN :
          onVisibilityChange(path, isVisible)
    \/ onToggleModifiedColumn
    \/ handleExportCSV

SpecCsv == Init /\ [][NextCsv]_vars

----------------------------------------------------------------------------
(* The page with its pills: Enter, suggestions, cell clicks and removal    *)

\* a host whose facts hold a plain word, a value with blanks around it, a
\* value with an equals sign (the root of ansible_cmdline), a number and a
\* null, and a host without facts
CellHosts ==
    << Host(S("h1"), << Entry(S("os"),   JStr(S("Ubuntu"))),
                        Entry(S("motd"), JStr(S(" hi "))),
                        Entry(S("root"), JStr(S("UUID=a1"))),
                        Entry(S("cpus"), JNum(8)),
                        Entry(S("env"),  JNull) >>),
       Host(S("h0"), << >>) >>

PillSnapshots == {CellHosts}

\* what the operator types into the search box
PillInputs == { S("os"), S(" os "), S("\"h1\""), S("o") }

\* the suggestions effect of SearchBar: the paths that start with the input,
\* then the paths that include it, each group sorted
suggestions(inputValue, paths) ==
    LET lowercasedInput == toLowerCase(inputValue)
        starts == { p \in Range(paths) : startsWith(toLowerCase(p), lowercasedInput) }
        holds  == { p \in Range(paths) \ starts :
                      includes(toLowerCase(p), lowercasedInput) }
    IN  IF inputValue = <<>> THEN <<>>
        ELSE sortStrings(starts) \o sortStrings(holds)

\* the pill list after handleSuggestionClick, with the pill appended without
\* the Set
suggestionPillsAppended(pills, suggestion) ==
    LET newPill == trim(suggestion)
    IN  IF newPill # <<>> THEN Append(pills, newPill) ELSE pills

\* the pill list after handleSuggestionClick
suggestionPills(pills, suggestion) ==
    LET newPill == trim(suggestion)
    IN  IF newPill # <<>> THEN uniq(Append(pills, newPill)) ELSE pills

\* SearchBar handleSuggestionClick (a click on a suggestion, or Enter on the
\* active one)
handleSuggestionClick(suggestion) ==
    /\ SearchBarShown
    /\ Len(searchPills) < MaxPills
    /\ searchPills' = suggestionPills(searchPills, suggestion)
    /\ searchInputValue' = <<>>
    /\ UNCHANGED <<data, allFacts, isLoading, factsLoaded, error,
                   allFactPaths, visibleFactPaths, fact, term, verdict,
                   viewMode, sortConfig, showModifiedColumn, exported,
                   awx>>

\* the pill list after handleCellClick
cellPills(pills, value) ==
    LET stringValue == trim(String(value))
    IN  IF /\ stringValue # <<>>
           /\ stringValue # SentinelPath
           /\ stringValue # NoDataValue.s
        THEN uniq(Append(pills, <<"\"">> \o stringValue \o <<"\"">>))
        ELSE pills

\* FactBrowser handleCellClick
handleCellClick(value) ==
    /\ SearchBarShown
    /\ Len(searchPills) < MaxPills
    /\ searchPills' = cellPills(searchPills, value)
    /\ UNCHANGED <<data, allFacts, searchInputValue, isLoading, factsLoaded, error,
                   allFactPaths, visibleFactPaths, fact, term, verdict,
                   viewMode, sortConfig, showModifiedColumn, exported,
                   awx>>

\* the three cells of a row of FactTable that call onCellClick
CellValues(row) == << JStr(row.host), JStr(row.factPath), row.value >>

NextPills ==
    \/ \E body \in PillSnapshots : LoadStart(Resolved(body))
    \/ LoadResolve
    \/ \E value \in PillInputs \cup {<<>>} : setSearchInputValue(value)
    \/ EnterKey
    \/ BackspaceKey
    \/ \E i \in 1..Len(searchPills) : handleRemovePill(searchPills[i])
    \/ \E suggestion \in Range(suggestions(searchInputValue, allFactPaths)) :
          handleSuggestionClick(suggestion)
    \/ \E n \in 1..Len(listRows), cell \in 1..3 :
          handleCellClick(CellValues(listRows[n])[cell])

SpecPills == Init /\ [][NextPills]_vars

----------------------------------------------------------------------------
(* The page loading and reloading, every fetch settling in the end         *)

ReloadSnapshots == {RoleHosts, UbuntuHost, NoFactsHost, HostnameFact}

\* loads that succeed or fail, and the column controls between them
NextLoad ==
    \/ \E body \in ReloadSnapshots : LoadStart(Resolved(body))
    \/ LoadStart(Rejected)
    \/ LoadResolve
    \/ LoadReject
    \/ \E path \in Range(allFactPaths), isVisible \in BOOLEAN :
          onVisibilityChange(path, isVisible)
    \/ onToggleModifiedColumn

\* the promise of the fetch settles: the await of handleLoadFacts resumes
SpecLoad ==
    Init /\ [][NextLoad]_vars /\ WF_vars(LoadResolve) /\ WF_vars(LoadReject)

----------------------------------------------------------------------------
(* The backend fetching facts from AWX (fetchFactsFromAwx)                 *)

MaxAwxHosts == 3       \* hosts AWX lists in the model
MaxLimit == 2          \* largest AWX_CONCURRENCY_LIMIT of the model

maxRetries == 3

PageVars ==
    <<data, allFacts, searchPills, searchInputValue, isLoading, factsLoaded,
      error, allFactPaths, visibleFactPaths, viewMode, sortConfig,
      showModifiedColumn, exported, fact, term, verdict>>

\* the whole remainder of the host list taken as one chunk
sliceToEnd(from, to, total) == (from + 1)..total

\* allHosts.slice(from, to), as the positions 1..total of the sorted list
slice(from, to, total) == (from + 1)..(IF to < total THEN to ELSE total)

\* the chunk of the current pass of the for loop
Chunk == slice(awx.i, awx.i + awx.concurrencyLimit, awx.totalHosts)

\* one attempt more before giving up
settleOneMore(kind, attempt) ==
    CASE kind = "404" -> "no_facts"
      [] kind = "ok"  -> "success"
      [] OTHER        -> IF attempt <= maxRetries THEN "sleep" ELSE "failure"

\* what an attempt of processHost comes to: a 404 returns no_facts, another
\* good response returns success, anything else (a status that is not ok, a
\* rejected fetch, the abort at requestTimeout, a body that is not JSON) is
\* caught and, after a second's sleep, tried again unless it was the last
\* attempt
settle(kind, attempt) ==
    CASE kind = "404" -> "no_facts"
      [] kind = "ok"  -> "success"
      [] OTHER        -> IF attempt < maxRetries THEN "sleep" ELSE "failure"

Outcomes == {"success", "failure", "no_facts"}

\* the requests for facts that AWX has not answered yet
InFlight == {h \in DOMAIN awx.task : awx.task[h].st = "fetch"}

\* fetchFactsFromAwx up to its for loop: the host list is fetched and sorted
fetchFactsFromAwx(totalHosts, concurrencyLimit) ==
    /\ awx.pc = "idle"
    /\ awx' = [pc |-> IF totalHosts = 0 THEN "done" ELSE "loop",
               totalHosts |-> totalHosts,
               concurrencyLimit |-> concurrencyLimit,
               i |-> 0,
               task |-> [h \in 1..totalHosts |->
                            [st |-> "new", attempt |-> 0, issued |-> 0, answer |-> "none"]],
               processedCount |-> 0, successCount |-> 0,
               failureCount |-> 0, noFactsCount |-> 0]
    /\ UNCHANGED PageVars

\* a pass of the loop starts: processHost is called for every host of the
\* chunk and each call runs to its first fetch
ChunkStart ==
    /\ awx.pc = "loop"
    /\ awx.i < awx.totalHosts
    /\ awx' = [awx EXCEPT
                 !.pc = "await",
                 !.task = [h \in DOMAIN awx.task |->
                              IF h \in Chunk
                              THEN [st |-> "fetch", attempt |-> 1, issued |-> 1, answer |-> "none"]
                              ELSE awx.task[h]]]
    /\ UNCHANGED PageVars

\* a fetch of processHost settles
FactsResponse(h, kind) ==
    /\ awx.pc = "await"
    /\ h \in InFlight
    /\ awx' = [awx EXCEPT !.task[h].st = settle(kind, awx.task[h].attempt),
                           !.task[h].answer = kind]
    /\ UNCHANGED PageVars

\* the one-second timer before the next attempt fires
RetryTimer(h) ==
    /\ awx.pc = "await"
    /\ awx.task[h].st = "sleep"
    /\ awx' = [awx EXCEPT !.task[h] = [st |-> "fetch",
                                       attempt |-> awx.task[h].attempt + 1,
                                       issued |-> awx.task[h].issued + 1,
                                       answer |-> "none"]]
    /\ UNCHANGED PageVars

\* Promise.all of the chunk resolves and the results are added up
ChunkDone ==
    /\ awx.pc = "await"
    /\ \A h \in Chunk : awx.task[h].st \in Outcomes
    /\ LET with(status) == Cardinality({h \in Chunk : awx.task[h].st = status})
       IN  awx' = [awx EXCEPT
                     !.pc = "loop",
                     !.i = awx.i + awx.concurrencyLimit,
                     !.processedCount = @ + Cardinality(Chunk),
                     !.successCount = @ + with("success"),
                     !.failureCount = @ + with("failure"),
                     !.noFactsCount = @ + with("no_facts")]
    /\ UNCHANGED PageVars

\* the loop ends and the facts are returned
LoopEnd ==
    /\ awx.pc = "loop"
    /\ awx.i >= awx.totalHosts
    /\ awx' = [awx EXCEPT !.pc = "done"]
    /\ UNCHANGED PageVars

\* the steps of a fetch under way
AwxStep ==
    \/ ChunkStart
    \/ \E h \in 1..MaxAwxHosts, kind \in {"ok", "404", "error"} :
          awx.pc = "await" /\ FactsResponse(h, kind)
    \/ \E h \in 1..MaxAwxHosts :
          awx.pc = "await" /\ h \in DOMAIN awx.task /\ RetryTimer(h)
    \/ ChunkDone
    \/ LoopEnd

NextAwx ==
    \/ \E totalHosts \in 0..MaxAwxHosts, concurrencyLimit \in 1..MaxLimit :
          fetchFactsFromAwx(totalHosts, concurrencyLimit)
    \/ AwxStep

\* every fetch settles (the abort at requestTimeout at the latest), timers
\* fire and the event loop runs what is ready
SpecAwx == Init /\ [][NextAwx]_vars /\ WF_vars(AwxStep)

----------------------------------------------------------------------------
(* The row builder on bounded snapshots                                    *)

MaxHosts == 2          \* hosts of a generated snapshot
MaxFacts == 3          \* top-level facts of a generated snapshot, over all hosts

HostNames == << S("web"), S("web-db"), S("h1") >>

\* the top-level facts a generated host draws from: leaves of every JSON
\* type, an array, nested objects, a dotted and a hyphenated key, and the
\* reserved timestamp key at the top level and nested
FactEntries ==
    << Entry(S("role"), JStr(S("web"))),
       Entry(S("db-role"), JNull),
       Entry(S("tags"), JArr(<< JStr(S("a")), JNum(1) >>)),
       Entry(S("net"),
             JObj(<< Entry(S("eth0"), JObj(<< Entry(S("ipv4"), JStr(S("10.0.0.1"))) >>)),
                     Entry(S("mtu"), JNum(1500)),
                     Entry(ReservedKey, JStr(S("x"))) >>)),
       Entry(S("net.mtu"), JNum(9000)),
       Entry(S("extra"), JObj(<< >>)),
       Entry(ReservedKey, JStr(S("2024-05-20T10:00:00Z"))),
       Entry(S("flag"), JBool(FALSE)) >>

RECURSIVE SubsetsUpTo(_, _)
SubsetsUpTo(set, k) ==
    IF k = 0 THEN {{}}
    ELSE LET smaller == SubsetsUpTo(set, k - 1)
         IN  smaller \cup {A \cup {x} : A \in smaller, x \in set}

\* the snapshot whose hosts are HostNames[h], h in hosts, each with the
\* facts FactEntries[i] such that <<h, i>> is picked (in index order)
BuildSnapshot(hosts, picked) ==
    LET hostSeq == SelectSeq([h \in 1..Len(HostNames) |-> h], LAMBDA h : h \in hosts)
        idxOf(h) == SelectSeq([i \in 1..Len(FactEntries) |-> i],
                              LAMBDA i : <<h, i>> \in picked)
    IN  [n \in 1..Len(hostSeq) |->
            Host(HostNames[hostSeq[n]],
                 [m \in 1..Len(idxOf(hostSeq[n])) |-> FactEntries[idxOf(hostSeq[n])[m]]])]

Snapshots ==
    UNION { { BuildSnapshot(hosts, picked) :
                picked \in SubsetsUpTo(hosts \X (1..Len(FactEntries)), MaxFacts) } :
            hosts \in { H \in SUBSET (1..Len(HostNames)) :
                          Cardinality(H) \in 1..MaxHosts } }

\* a load is under way and its fetch settles with a generated snapshot
InitFlatten ==
    /\ data \in {Resolved(body) : body \in Snapshots}
    /\ allFacts = <<>>
    /\ searchPills = <<>>
    /\ searchInputValue = <<>>
    /\ isLoading = TRUE
    /\ factsLoaded = TRUE
    /\ error = NoError
    /\ allFactPaths = <<>>
    /\ visibleFactPaths = {}
    /\ ViewIdle
    /\ BackendIdle
    /\ MatcherIdle

NextFlatten == LoadResolve

SpecFlatten == InitFlatten /\ [][NextFlatten]_vars

----------------------------------------------------------------------------
(* The matchers on bounded rows and terms                                  *)

MaxOrTerms == 2        \* sub-terms of a generated OR pill

MatchHosts  == { S("H1"), S("web-2") }
MatchPaths  == { S("ansible_distribution"), S("custom_distribution_note"),
                 S("ansible_processor_vcpus"), S("kernel") }
MatchValues == { JStr(S("Ubuntu")), JNum(8), JStr(S("10")), JStr(S("[\"a\"]")),
                 JStr(<<>>), JNull, NoDataValue }
MatchModified == { Undefined, JStr(S("2024-05-20T10:00:00+00:00")) }

MatchRows ==
    { FactRow(h \o <<"-">> \o p, h, p, v, m) :
        h \in MatchHosts, p \in MatchPaths, v \in MatchValues, m \in MatchModified }

TermKeys      == { S("host"), S("HostName"), S("VCPUs"), S("distribution"),
                   S("ansible_processor_vcpus") }
TermOperators == { S("="), S("!="), S(">"), S("<"), S(">="), S("<=") }
TermValues    == { S("Ubuntu"), S("4"), S("9.5"), S("'8'"), S("h1") }
TermBlanks    == { <<>>, <<" ">> }

KeyValueTerms ==
    { k \o b \o op \o b \o v :
        k \in TermKeys, op \in TermOperators, v \in TermValues, b \in TermBlanks }

QuotedTerms ==
    { <<"\"">> \o c \o <<"\"">> : c \in { S("h1"), S("ubuntu"), S("kernel"), <<>> } }
    \cup { <<"\"">> }

FreeTextTerms ==
    { S("ubu"), S("KERN"), S("u.untu"), S("(a"), S("(no DATA"), S("+00"), S("2024"),
      S("\"a") }

OrSubTerms ==
    { S("\"kernel\""), S("\"system\""), S("ubu"), S("host=h1"), S("vcpus>4"), <<>> }

RECURSIVE OrJoins(_)
OrJoins(n) ==
    IF n = 1 THEN OrSubTerms
    ELSE { a \o <<"|">> \o b : a \in OrJoins(n - 1), b \in OrSubTerms }

OrTerms == UNION { OrJoins(n) : n \in 2..MaxOrTerms }

MatchTerms == KeyValueTerms \cup QuotedTerms \cup FreeTextTerms \cup OrTerms

InitMatch ==
    /\ data = NoResponse
    /\ allFacts = <<>>
    /\ searchPills = <<>>
    /\ searchInputValue = <<>>
    /\ isLoading = FALSE
    /\ factsLoaded = FALSE
    /\ error = NoError
    /\ allFactPaths = <<>>
    /\ visibleFactPaths = {}
    /\ ViewIdle
    /\ BackendIdle
    /\ fact \in MatchRows
    /\ term \in MatchTerms
    /\ verdict = [done |-> FALSE]

\* the row is put to each matcher with the term
Match ==
    /\ ~verdict.done
    /\ verdict' = [done   |-> TRUE,
                   main   |-> matchesPill(fact, term),
                   single |-> matchSingleTerm(fact, term),
                   worker |-> workerMatchesPill(fact, term),
                   live   |-> matchesLiveSearch(fact, term)]
    /\ UNCHANGED <<data, allFacts, searchPills, searchInputValue, isLoading,
                   factsLoaded, error, allFactPaths, visibleFactPaths, fact, term,
                   viewMode, sortConfig, showModifiedColumn, exported,
                   awx>>

NextMatch == Match

SpecMatch == InitMatch /\ [][NextMatch]_vars

----------------------------------------------------------------------------
(* Properties of the filter engine (specification Spec)                    *)

RemoveAt(seq, i) == SubSeq(seq, 1, i - 1) \o SubSeq(seq, i + 1, Len(seq))

\* the rows the page shows for the committed pills alone
PillFiltered(pills) == searchedFacts(allFacts, pills, <<>>)

\* C1: a row of the loaded collection is in the pill-filtered result iff it
\* matches every pill on its own (on the page and in the worker, each with
\* its matcher), and taking any one pill away never removes a row from the
\* result, with or without a live term.
C1_EveryPillAndMonotone ==
    /\ PillFiltered(searchPills)
         = SelectSeq(allFacts,
                     LAMBDA f : \A i \in 1..Len(searchPills) :
                                    matchesPill(f, searchPills[i]))
    /\ workerOnMessage(allFacts, searchPills)
         = SelectSeq(allFacts,
                     LAMBDA f : \A i \in 1..Len(searchPills) :
                                    workerMatchesPill(f, searchPills[i]))
    /\ \A i \in 1..Len(searchPills) :
         /\ Range(PillFiltered(searchPills))
               \subseteq Range(PillFiltered(RemoveAt(searchPills, i)))
         /\ Range(searchedFacts(allFacts, searchPills, searchInputValue))
               \subseteq Range(searchedFacts(allFacts, RemoveAt(searchPills, i),
                                             searchInputValue))
         /\ Range(workerOnMessage(allFacts, searchPills))
               \subseteq Range(workerOnMessage(allFacts, RemoveAt(searchPills, i)))

\* two pills keep some rows and drop others, and one of the pills alone
\* keeps strictly more
C1_TwoPillsNarrow ==
    /\ Len(searchPills) = 2
    /\ PillFiltered(searchPills) # <<>>
    /\ \E i \in 1..2 :
         Len(PillFiltered(searchPills)) < Len(PillFiltered(RemoveAt(searchPills, i)))
    /\ Len(PillFiltered(RemoveAt(searchPills, 1))) < Len(allFacts)

\* C8: the live term is evaluated with the rules of a single pill: a
\* non-blank live term and no pills give the rows that the term as the only
\* pill, with an empty live term, gives.
C8_LiveTermAsSinglePill ==
    trim(searchInputValue) # <<>>
        => searchedFacts(allFacts, <<>>, searchInputValue)
             = searchedFacts(allFacts, <<searchInputValue>>, <<>>)

----------------------------------------------------------------------------
(* Properties of the row builder (specification SpecFlatten)               *)

\* the leaf facts of a fact object: plain objects are recursed into, every
\* other value is one leaf, the reserved key is not a fact
RECURSIVE LeafFacts(_)
LeafFacts(entries) ==
    IF Len(entries) = 0 THEN 0
    ELSE (IF entries[1].k = ReservedKey THEN 0
          ELSE IF entries[1].v.t = "obj" THEN LeafFacts(entries[1].v.e)
          ELSE 1)
         + LeafFacts(Tail(entries))

RowsOfHost(host) == SelectSeq(allFacts, LAMBDA r : r.host = host)

Loaded == ~isLoading /\ data.status = "ok"

\* C2: after a load, each host of the snapshot has as many rows as it has
\* leaf facts, or exactly one sentinel row (factPath '---', value
\* '(No data available)') when it has no leaf fact.
C2_RowsPerHost ==
    Loaded =>
        \A n \in 1..Len(data.body) :
            LET rows   == RowsOfHost(data.body[n].host)
                leaves == LeafFacts(data.body[n].facts.e)
            IN  IF leaves = 0
                THEN /\ Len(rows) = 1
                     /\ rows[1].factPath = SentinelPath
                     /\ rows[1].value = NoDataValue
                ELSE /\ Len(rows) = leaves
                     /\ \A i \in 1..Len(rows) : rows[i].factPath # SentinelPath

\* a loaded snapshot with a host whose only facts are an empty object or the
\* timestamp (no leaf) and a host with three leaves or more, one nested
C2_SentinelAndLeaves ==
    /\ Loaded
    /\ \E n \in 1..Len(data.body) :
         /\ Len(data.body[n].facts.e) > 0
         /\ LeafFacts(data.body[n].facts.e) = 0
         /\ Len(RowsOfHost(data.body[n].host)) = 1
    /\ \E n \in 1..Len(data.body) :
         /\ LeafFacts(data.body[n].facts.e) >= 3
         /\ Len(data.body[n].facts.e) < LeafFacts(data.body[n].facts.e)

\* C3: within the rows built from one snapshot no two rows have the same id.
C3_IdsUnique ==
    Loaded =>
        \A i, j \in 1..Len(allFacts) :
            i # j => allFacts[i].id # allFacts[j].id

----------------------------------------------------------------------------
(* Properties of the matchers (specification SpecMatch)                    *)

KeyValueTerm(k, b, op, v) == k \o b \o op \o b \o v

HostKeys == { S("host"), S("hostname") }

NumericOperators == { S(">"), S("<"), S(">="), S("<=") }

\* C4: for a key/operator/value term whose key is not host/hostname, a row
\* whose factPath does not end with the key (case-insensitively) does not
\* match, whatever the operator and the value, in either matcher.
C4_KeyMustBeSuffix ==
    verdict.done =>
        \A k \in TermKeys, op \in TermOperators, v \in TermValues, b \in TermBlanks :
            ( /\ term = KeyValueTerm(k, b, op, v)
              /\ toLowerCase(k) \notin HostKeys
              /\ ~endsWith(toLowerCase(fact.factPath), toLowerCase(k)) )
            => (~verdict.main /\ ~verdict.single /\ ~verdict.worker)

\* 'distribution != Ubuntu' put to a vcpus row with value 8: the values
\* differ, the path does not end with the key, the row is not matched
C4_NotEqualOffPath ==
    /\ verdict.done
    /\ term = S("distribution != Ubuntu")
    /\ fact.factPath = S("ansible_processor_vcpus")
    /\ fact.value = JNum(8)
    /\ ~verdict.main /\ ~verdict.single /\ ~verdict.worker

DistributionNoteCase ==
    /\ verdict.done
    /\ term = S("distribution=Ubuntu")
    /\ fact.factPath = S("custom_distribution_note")
    /\ fact.value = JStr(S("Ubuntu"))

\* C5 (as stated): the pill distribution=Ubuntu matches a row whose factPath
\* is custom_distribution_note and whose value is Ubuntu.
C5_NoteMatches == DistributionNoteCase => verdict.main

\* C5 (amended): the pill distribution=Ubuntu does not match a row whose
\* factPath is custom_distribution_note and whose value is Ubuntu, the
\* factPath not ending with the key; it matches the row whose factPath is
\* ansible_distribution with that value.
C5_NoteDoesNotMatch ==
    /\ DistributionNoteCase => (~verdict.main /\ ~verdict.single /\ ~verdict.worker)
    /\ ( /\ verdict.done
         /\ term = S("distribution=Ubuntu")
         /\ fact.factPath = S("ansible_distribution")
         /\ fact.value = JStr(S("Ubuntu")) )
       => (verdict.main /\ verdict.single /\ verdict.worker)

C5_NoteRowEvaluated == DistributionNoteCase /\ ~verdict.main

\* C6: for a key/operator/value term whose key is host or hostname
\* (case-insensitively) the value is compared with row.host: '=' matches iff
\* they are equal case-insensitively, '!=' iff they differ, any other
\* operator never matches; on the page matcher and on the worker matcher.
C6_HostKeyComparesHost ==
    verdict.done =>
        \A k \in TermKeys, op \in TermOperators, v \in TermValues, b \in TermBlanks :
            (term = KeyValueTerm(k, b, op, v) /\ toLowerCase(k) \in HostKeys)
            => LET expected ==
                       CASE op = S("=")  ->
                                toLowerCase(fact.host) = toLowerCase(v)
                         [] op = S("!=") ->
                                toLowerCase(fact.host) # toLowerCase(v)
                         [] OTHER -> FALSE
               IN  verdict.main = expected /\ verdict.worker = expected

\* C7: a pill containing '|' is split on '|' and matches a row iff one of
\* its sub-terms, evaluated as a term of its own, matches the row (stated
\* for pills whose sub-terms are all non-blank); on the page matcher and on
\* the worker matcher.
C7_OrOfSubTerms ==
    verdict.done =>
        LET orTerms == split(trim(term), "|")
        IN  (Len(orTerms) > 1 /\ \A i \in 1..Len(orTerms) : trim(orTerms[i]) # <<>>)
            => /\ verdict.main = (\E i \in 1..Len(orTerms) : matchesPill(fact, orTerms[i]))
               /\ verdict.worker
                    = (\E i \in 1..Len(orTerms) : matchSingleTerm(fact, orTerms[i]))

\* the numbers the numerals of the model denote, in tenths; -1 for a text
\* that does not start with a numeral
Tenths(s) ==
    CASE s = S("4")   -> 40
      [] s = S("8")   -> 80
      [] s = S("9.5") -> 95
      [] s = S("10")  -> 100
      [] OTHER        -> -1

\* C9: for >, <, >= and <= (key not host/hostname, factPath ending with the
\* key) the row value and the term value are read as numbers; the row does
\* not match when either is not a number, and matches iff the comparison of
\* the two numbers holds otherwise.  ansible_processor_vcpus>4 keeps the row
\* with value 8 and drops a row whose factPath is ansible_distribution.
C9_NumericComparison ==
    verdict.done =>
        /\ \A k \in TermKeys, op \in NumericOperators, v \in TermValues, b \in TermBlanks :
              ( /\ term = KeyValueTerm(k, b, op, v)
                /\ toLowerCase(k) \notin HostKeys
                /\ endsWith(toLowerCase(fact.factPath), toLowerCase(k)) )
              => LET x == Tenths(String(fact.value))
                     y == Tenths(v)
                 IN  verdict.main
                       = ( /\ x >= 0
                           /\ y >= 0
                           /\ CASE op = S(">")  -> x > y
                                [] op = S("<")  -> x < y
                                [] op = S(">=") -> x >= y
                                [] op = S("<=") -> x =< y )
        /\ ( /\ term = S("ansible_processor_vcpus>4")
             /\ fact.factPath = S("ansible_processor_vcpus")
             /\ fact.value = JNum(8) )
           => verdict.main
        /\ (term = S("ansible_processor_vcpus>4")
               /\ fact.factPath = S("ansible_distribution"))
           => ~verdict.main

\* the string "10" put to 'vcpus > 9.5' is matched: 10 is greater than 9.5
\* although "10" sorts before "9.5"
C9_TenAboveNinePointFive ==
    /\ verdict.done
    /\ term = S("VCPUs > 9.5")
    /\ fact.factPath = S("ansible_processor_vcpus")
    /\ fact.value = JStr(S("10"))
    /\ verdict.main

\* C10: a term is handled by the exact-match rule only when it is wrapped in
\* double quotes and longer than 2 characters: it then matches iff host,
\* factPath or String(value) equals the unwrapped content
\* case-insensitively; a quoted term of length 1 or 2 is left to the
\* free-text rule.
C10_ExactOnlyWhenLongerThanTwo ==
    (verdict.done /\ term \in QuotedTerms) =>
        LET content == toLowerCase(SubSeq(term, 2, Len(term) - 1))
            exact   == \/ toLowerCase(fact.host) = content
                       \/ toLowerCase(fact.factPath) = content
                       \/ toLowerCase(String(fact.value)) = content
        IN  IF Len(term) > 2
            THEN verdict.main = exact /\ verdict.single = exact
            ELSE /\ verdict.main = FreeTextMatch(fact, term)
                 /\ verdict.single = FreeTextMatch(fact, term)

\* the free-text terms of the model that are not regular expressions
NotRegExps == { S("(a"), S("(no DATA"), S("+00") }

\* the value of a key/operator/value term with one pair of quotes taken off,
\* as the worker reads it
Unquoted(v) ==
    IF Len(v) >= 2 /\ v[1] = v[Len(v)] /\ v[1] \in {"'", "\""}
    THEN SubSeq(v, 2, Len(v) - 1) ELSE v

\* C11: matching gives a verdict for every term and row; a free-text term
\* that does not compile as a regular expression is looked for as a
\* case-insensitive substring of host, factPath, String(value) and, when
\* present, modified; a numeric comparison with a side that is not a number
\* is 'no match'.
C11_NeverRaises ==
    verdict.done =>
        /\ {verdict.main, verdict.single, verdict.worker, verdict.live} \subseteq BOOLEAN
        /\ term \in NotRegExps =>
             LET needle == toLowerCase(term)
                 found  == \/ includes(toLowerCase(fact.host), needle)
                           \/ includes(toLowerCase(fact.factPath), needle)
                           \/ includes(toLowerCase(String(fact.value)), needle)
                           \/ /\ fact.modified # Undefined
                              /\ includes(toLowerCase(String(fact.modified)), needle)
             IN  verdict.main = found /\ verdict.single = found /\ verdict.worker = found
        /\ \A k \in TermKeys, op \in NumericOperators, v \in TermValues, b \in TermBlanks :
             term = KeyValueTerm(k, b, op, v) =>
                /\ (Tenths(v) < 0 \/ Tenths(String(fact.value)) < 0) => ~verdict.main
                /\ (Tenths(Unquoted(v)) < 0 \/ Tenths(String(fact.value)) < 0)
                      => (~verdict.single /\ ~verdict.worker)

\* '+00' is not a regular expression and is found in the modified time only
C11_FoundInModified ==
    /\ verdict.done
    /\ term = S("+00")
    /\ fact.value = JNull
    /\ fact.modified # Undefined
    /\ verdict.main /\ verdict.single /\ verdict.worker

----------------------------------------------------------------------------
(* C12: column visibility keeps exactly the visible and the sentinel rows  *)

\* the rows of facts whose factPath is visible or the sentinel
VisibleOrSentinel(facts) ==
    SelectSeq(facts, LAMBDA f : f.factPath \in visibleFactPaths \/ f.factPath = SentinelPath)

\* the rows that passed the pill and live-term steps
Searched == searchedFacts(allFacts, searchPills, searchInputValue)

\* C12: in every reachable state of the page, the column-visibility step of
\* the list view and of the pivot view keeps a row of its input if and only
\* if the row's factPath is in visibleFactPaths or is '---', whether or not
\* the equal-size shortcut is taken.
C12_KeepsVisibleOrSentinel ==
    /\ filteredFacts(Searched, allFactPaths, visibleFactPaths) = VisibleOrSentinel(Searched)
    /\ \A mode \in {"list", "pivot"} :
          pivotViewFilteredFacts(mode, allFacts, searchPills, searchInputValue,
                                 allFactPaths, visibleFactPaths)
          = VisibleOrSentinel(
                IF mode = "pivot" /\ SearchActive(searchPills, searchInputValue)
                THEN allFactsForMatchingHosts(allFacts, searchPills, searchInputValue)
                ELSE Searched)

\* some columns are hidden: a searched row is dropped and a sentinel row kept
C12_HiddenDroppedSentinelKept ==
    LET kept == filteredFacts(Searched, allFactPaths, visibleFactPaths)
    IN  /\ visibleFactPaths # {}
        /\ Len(kept) < Len(Searched)
        /\ \E i \in 1..Len(kept) : kept[i].factPath = SentinelPath
        /\ \E i \in 1..Len(kept) : kept[i].factPath # SentinelPath

----------------------------------------------------------------------------
(* C13: the dashboard sees every row of every matching host                *)

\* the rows of the dashboard
Dashboard == dashboardFacts(allFacts, searchPills, searchInputValue)

\* C13: in every reachable state of the page, with a pill or a live term the
\* dashboard input is exactly the rows of allFacts whose host has a row that
\* passes the pills and the live term, whatever columns are visible; with no
\* pill and no live term it is allFacts.
C13_AllRowsOfMatchingHosts ==
    IF Len(searchPills) > 0 \/ trim(searchInputValue) # <<>>
    THEN Dashboard =
            SelectSeq(allFacts,
                LAMBDA f : \E i \in 1..Len(Searched) : Searched[i].host = f.host)
    ELSE Dashboard = allFacts

\* a search is active, a column is hidden, and the dashboard holds a row that
\* neither passed the search nor is visible, while another host is left out
C13_HiddenRowOnDashboard ==
    /\ Len(searchPills) > 0
    /\ Len(Dashboard) < Len(allFacts)
    /\ \E i \in 1..Len(Dashboard) :
          /\ Dashboard[i].factPath \notin visibleFactPaths \cup {SentinelPath}
          /\ \A j \in 1..Len(Searched) : Searched[j] # Dashboard[i]

----------------------------------------------------------------------------
(* C14: the headers of the pivot projection                                *)

\* the rows the pivot projection is given
PivotInput ==
    pivotViewFilteredFacts(viewMode, allFacts, searchPills, searchInputValue,
                           allFactPaths, visibleFactPaths)

\* the distinct fact paths of the rows given, the sentinel left out
PivotInputPaths == {PivotInput[i].factPath : i \in 1..Len(PivotInput)} \ {SentinelPath}

\* C14: whenever the rows given to the pivot projection are not empty, its
\* headers are "hostname" followed by the distinct non-sentinel factPaths of
\* those rows in strictly ascending code-unit order, so without duplicates,
\* and the headers after "hostname" are as a set exactly those factPaths.
C14_HeadersSortedDistinct ==
    LET headers == pivotedData.headers
    IN  Len(PivotInput) > 0 =>
            /\ Len(headers) > 0
            /\ headers[1] = S("hostname")
            /\ \A i, j \in 2..Len(headers) : i < j => StringLess(headers[i], headers[j])
            /\ {headers[i] : i \in 2..Len(headers)} = PivotInputPaths

\* the rows given hold a sentinel row, a path shared by two hosts, and an
\* upper-case path that sorts before the lower-case ones
C14_SharedPathsAndSentinel ==
    /\ \E i \in 1..Len(PivotInput) : PivotInput[i].factPath = SentinelPath
    /\ \E i, j \in 1..Len(PivotInput) :
          i # j /\ PivotInput[i].factPath = PivotInput[j].factPath
    /\ {S("Env"), S("cpus")} \subseteq PivotInputPaths
    /\ Len(pivotedData.headers) > 2

----------------------------------------------------------------------------
(* C15: one pivot record per host of the pivot input                       *)

\* the hostname of every record of the projection, in the order of the records
RecordHosts ==
    [n \in 1..Len(pivotedData.data) |->
        GetProperty(pivotedData.data[n], S("hostname")).s]

\* C15: the pivot projection holds exactly one record for every host that has
\* at least one row in the pivot input and no record for any other host.
\* (Violated: a host whose only row is the sentinel row is in the input and
\* gets no record.)
C15_OneRecordPerInputHost ==
    /\ \A i, j \in 1..Len(RecordHosts) : RecordHosts[i] = RecordHosts[j] => i = j
    /\ Range(RecordHosts) = {PivotInput[i].host : i \in 1..Len(PivotInput)}

----------------------------------------------------------------------------
(* C16: the order of the pivot records, before and after a hostname sort   *)

\* the hosts of the rows that make records, in the order of their first row
RECURSIVE HostsAsMet(_)
HostsAsMet(facts) ==
    IF facts = <<>> THEN <<>>
    ELSE LET before == HostsAsMet(SubSeq(facts, 1, Len(facts) - 1))
             last   == facts[Len(facts)]
         IN  IF last.factPath = SentinelPath \/ last.host \in Range(before) THEN before
             ELSE Append(before, last.host)

\* the hostname of every record of the pivot table shown, in table order
SortedRecordHosts ==
    [n \in 1..Len(pivotTable.data) |->
        GetProperty(pivotTable.data[n], S("hostname")).s]

HostnameAscending == [key |-> S("hostname"), direction |-> "ascending"]

\* C16: the records of the pivot projection come in the order in which their
\* hosts first appear in the rows given to it, also when host names are
\* integers; and when the pivot view is sorted by hostname ascending the
\* same records are shown ordered by hostname.
C16_RowGroupOrderThenHostname ==
    /\ RecordHosts = HostsAsMet(PivotInput)
    /\ (viewMode = "pivot" /\ sortConfig = HostnameAscending) =>
          /\ \A i \in 1..(Len(SortedRecordHosts) - 1) :
                localeCompare(SortedRecordHosts[i], SortedRecordHosts[i + 1]) <= 0
          /\ Len(SortedRecordHosts) = Len(RecordHosts)
          /\ Range(SortedRecordHosts) = Range(RecordHosts)

\* the pivot view sorted by hostname shows a before b and 9 before 10, while
\* the projection has b before a as in the rows
C16_HostnameSortReorders ==
    /\ viewMode = "pivot"
    /\ sortConfig = HostnameAscending
    /\ RecordHosts = <<S("9"), S("10"), S("b"), S("a")>>
    /\ SortedRecordHosts = <<S("9"), S("10"), S("a"), S("b")>>

----------------------------------------------------------------------------
(* C17: null and undefined sort last in both directions                    *)

\* the rows given to the list sort
ListInput ==
    filteredFacts(Searched, allFactPaths, visibleFactPaths)

\* the values under the sort key, in the order of the list view
ListKeyValues == [n \in 1..Len(listRows) |-> RowField(listRows[n], sortConfig.key)]

\* the values under the sort key, in the order of the pivot view
PivotKeyValues ==
    [n \in 1..Len(pivotTable.data) |-> GetProperty(pivotTable.data[n], sortConfig.key)]

\* no defined value comes after a null or undefined one
NullishLast(values) ==
    \A i, j \in 1..Len(values) : (i < j /\ IsNullish(values[i])) => IsNullish(values[j])

\* C17: in the list view and in the pivot view, whatever the sort key and
\* whether the direction is ascending or descending, every item whose value
\* under the sort key is null or undefined comes after every item with a
\* defined value, and the sort returns all the items it was given.
C17_NullishLast ==
    /\ viewMode = "list" =>
          NullishLast(ListKeyValues) /\ Len(listRows) = Len(ListInput)
    /\ viewMode = "pivot" =>
          NullishLast(PivotKeyValues) /\ Len(pivotTable.data) = Len(pivotedData.data)

\* a descending list sort by modified with rows that have a timestamp, rows
\* that have none, and a modified value that is no date
C17_DescendingWithMissing ==
    /\ viewMode = "list"
    /\ sortConfig = [key |-> S("modified"), direction |-> "descending"]
    /\ \E i \in 1..Len(ListKeyValues) : IsNullish(ListKeyValues[i])
    /\ \E i \in 1..Len(ListKeyValues) : ListKeyValues[i] = JStr(S("never"))
    /\ \E i \in 1..Len(ListKeyValues) : ListKeyValues[i] = JStr(S("2024-05-20T10:00:00Z"))

----------------------------------------------------------------------------
(* C18: the sort is stable and idempotent                                  *)

\* the place of the n-th input row in the list view (the rows of a snapshot
\* of the model differ in host or factPath)
PlaceInList(n) == CHOOSE p \in 1..Len(listRows) : listRows[p] = ListInput[n]

\* C18: in the list view, two rows that the comparator finds equal are shown
\* in the order they had in the input of the sort, and sorting the rows shown
\* once more by the same key and direction gives the same sequence.
C18_StableAndIdempotent ==
    viewMode = "list" =>
        /\ \A i, j \in 1..Len(ListInput) :
              (i < j /\ compareFacts(ListInput[i], ListInput[j], sortConfig) = 0)
                  => PlaceInList(i) < PlaceInList(j)
        /\ sortedListFacts(viewMode, sortConfig, listRows) = listRows

\* a descending sort by factPath moved rows, and rows of several hosts with
\* the same factPath are equal under the comparator
C18_TiesInReorderedList ==
    /\ viewMode = "list"
    /\ sortConfig = [key |-> S("factPath"), direction |-> "descending"]
    /\ listRows # ListInput
    /\ \E i, j \in 1..Len(ListInput) :
          i < j /\ compareFacts(ListInput[i], ListInput[j], sortConfig) = 0

----------------------------------------------------------------------------
(* C19: filtering and sorting leave allFacts and the order of rows alone   *)

\* out lists rows of inp, each once, in the order they have in inp (the rows
\* of a snapshot of the model differ in host or factPath)
InOrderOf(out, inp) ==
    /\ \A i \in 1..Len(out) : \E p \in 1..Len(inp) : inp[p] = out[i]
    /\ \A i, j \in 1..Len(out) :
          i < j => (CHOOSE p \in 1..Len(inp) : inp[p] = out[i])
                   < (CHOOSE p \in 1..Len(inp) : inp[p] = out[j])

\* every filter output keeps the order of its input
FiltersKeepOrder ==
    /\ InOrderOf(Searched, allFacts)
    /\ InOrderOf(ListInput, Searched)
    /\ InOrderOf(PivotInput, allFacts)
    /\ InOrderOf(Dashboard, allFacts)

\* C19: every step of the page other than the start and the end of a load
\* (a pill added or removed, the live term typed, a column shown or hidden,
\* a sort requested, the view mode changed) leaves allFacts as it was, rows
\* and order; and in every state each filter output lists rows of its input
\* in the relative order they have there.
C19_BaseCollectionUntouched ==
    /\ [][(~isLoading /\ ~isLoading') => allFacts' = allFacts]_vars
    /\ []FiltersKeepOrder

\* the list view sorted descending shows the whole of allFacts (no search,
\* no hidden column) in another order than allFacts has
C19_SortedViewOfWholeCollection ==
    /\ viewMode = "list"
    /\ sortConfig.direction = "descending"
    /\ ~SearchActive(searchPills, searchInputValue)
    /\ AllPathsVisible(allFactPaths, visibleFactPaths)
    /\ Len(listRows) = Len(allFacts)
    /\ listRows # allFacts

----------------------------------------------------------------------------
(* C20: the exported CSV parses back to the projection                     *)

\* an RFC 4180 reader.  A character is inside a quoted field when an odd
\* number of double quotes precedes it ("" inside a quoted field counts
\* twice); records end at a line break (CRLF or LF) outside quotes, fields
\* at a comma outside quotes; the last record needs no line break.
InsideQuotes(text, i) ==
    Cardinality({k \in 1..(i - 1) : text[k] = "\""}) % 2 = 1

\* the stretches [from, to] of from..to between the positions in cuts
Stretches(from, to, cuts) ==
    LET inside == {c \in cuts : from <= c /\ c <= to}
        count  == Cardinality(inside)
        cut(k) == IF k = 0 THEN from - 1
                  ELSE IF k = count + 1 THEN to + 1
                  ELSE CHOOSE c \in inside : Cardinality({d \in inside : d < c}) = k - 1
    IN  [k \in 1..(count + 1) |-> [from |-> cut(k - 1) + 1, to |-> cut(k) - 1]]

\* "" read as one quote
RECURSIVE SingleQuotes(_)
SingleQuotes(str) ==
    IF str = <<>> THEN <<>>
    ELSE IF Len(str) >= 2 /\ str[1] = "\"" /\ str[2] = "\""
    THEN <<"\"">> \o SingleQuotes(SubSeq(str, 3, Len(str)))
    ELSE <<Head(str)>> \o SingleQuotes(Tail(str))

\* the content of a field as written
FieldContent(raw) ==
    IF Len(raw) >= 2 /\ raw[1] = "\"" /\ raw[Len(raw)] = "\""
    THEN SingleQuotes(SubSeq(raw, 2, Len(raw) - 1))
    ELSE raw

ParseCsv(text) ==
    LET outside(chr) == {i \in 1..Len(text) : text[i] = chr /\ ~InsideQuotes(text, i)}
        ends   == IF Len(text) > 0 /\ Len(text) \in outside("\n")
                  THEN Len(text) - 1 ELSE Len(text)
        lines  == Stretches(1, ends, outside("\n"))
        last(line) == IF line.to >= line.from /\ line.to \in outside("\r")
                         /\ line.to < Len(text)
                      THEN line.to - 1 ELSE line.to
        fields(line) == Stretches(line.from, last(line), outside(","))
    IN  [n \in 1..Len(lines) |->
            [h \in 1..Len(fields(lines[n])) |->
                FieldContent(SubSeq(text, fields(lines[n])[h].from,
                                          fields(lines[n])[h].to))]]

\* the string a value is exported as
FieldString(val) == IF val = JNull \/ val = Undefined THEN <<>> ELSE String(val)

\* the header list followed by the field strings of every record
TableOf(projection) ==
    <<projection.headers>>
    \o [n \in 1..Len(projection.data) |->
          [h \in 1..Len(projection.headers) |->
              FieldString(GetProperty(projection.data[n], projection.headers[h]))]]

\* C20: whenever the page exports CSV, reading the exported text with an
\* RFC 4180 parser gives the header list of the projection and, for every
\* record and header, the field string of that record, also when values or
\* header names hold commas, double quotes or line breaks.
\* (Violated: the header line is joined without escaping.)
C20_CsvRoundTrip ==
    [][exported' # exported => ParseCsv(exported'.s) = TableOf(Projection)]_vars

----------------------------------------------------------------------------
(* C22: the page matcher and the worker matcher                            *)

\* C22: for every row and every pill string, matchesPill of FactBrowser.tsx
\* and matchesPill of filter.worker.js give the same boolean.
\* (Violated: the two copies differ on '|', on the host key and on quoted
\* values.)
C22_SameVerdict == verdict.done => verdict.main = verdict.worker

----------------------------------------------------------------------------
(* C24: the backend's fact count and the rows of the frontend              *)

\* C24: for every snapshot whose hosts hold fact objects, countTotalFacts of
\* the backend gives the number of rows flattenFactsForTable builds from it
\* on load: the same leaves are counted and a host without leaves counts one.
C24_CountIsRowCount ==
    Loaded => countTotalFacts(data.body) = Len(allFacts)

\* a loaded snapshot with a host without leaves, a nested object holding a
\* timestamp key, and an array
C24_NestedArrayAndEmptyHost ==
    /\ Loaded
    /\ \E i \in 1..Len(allFacts) : allFacts[i].factPath = SentinelPath
    /\ \E i \in 1..Len(allFacts) : allFacts[i].factPath = S("net.eth0.ipv4")
    /\ \E i \in 1..Len(allFacts) : allFacts[i].factPath = S("tags")

----------------------------------------------------------------------------
(* C23: the concurrency limit of the AWX fetch                             *)

AwxRunning == awx.pc \in {"loop", "await"}

----------------------------------------------------------------------------
(* C25: every host of the AWX fetch ends in exactly one outcome            *)

\* the hosts whose processHost returned with the given status
HostsWith(status) == {h \in DOMAIN awx.task : awx.task[h].st = status}

\* what holds when fetchFactsFromAwx returns
AuditAtEnd ==
    /\ \A h \in DOMAIN awx.task : awx.task[h].st \in Outcomes
    /\ awx.processedCount = awx.totalHosts
    /\ awx.successCount + awx.failureCount + awx.noFactsCount = awx.processedCount
    /\ awx.successCount = Cardinality(HostsWith("success"))
    /\ awx.failureCount = Cardinality(HostsWith("failure"))
    /\ awx.noFactsCount = Cardinality(HostsWith("no_facts"))

\* C25: in the AWX fetch no host is asked for its facts more than 3 times, a
\* 404 ends the host as no_facts, a host that has its outcome (success,
\* no_facts or failure) is not asked again and keeps the outcome, a failure
\* comes only after the third attempt, and when the fetch returns every host
\* has one outcome, processedCount is totalHosts and the three outcome
\* counters add up to processedCount.
C25_OneOutcomePerHost ==
    /\ [](awx.pc # "idle" =>
            \A h \in DOMAIN awx.task :
               /\ awx.task[h].issued <= 3
               /\ awx.task[h].answer = "404" => awx.task[h].st = "no_facts"
               /\ awx.task[h].st = "failure" => awx.task[h].issued = 3)
    /\ [](awx.pc = "done" => AuditAtEnd)
    /\ [][awx.pc # "idle" =>
            \A h \in DOMAIN awx.task :
               awx.task[h].st \in Outcomes => awx'.task[h] = awx.task[h]]_vars

\* a fetch returned with a success, a host without facts after a failed
\* first attempt, and a host given up after three attempts
C25_EveryOutcomeSeen ==
    /\ awx.pc = "done"
    /\ HostsWith("success") # {}
    /\ \E h \in HostsWith("no_facts") : awx.task[h].issued = 2
    /\ \E h \in HostsWith("failure") : awx.task[h].issued = 3

----------------------------------------------------------------------------
(* C26: the visible paths are known paths                                  *)

\* C26: in every reachable state of the page (after a load, select all,
\* select none, a checkbox toggled, a pivot column removed, a reload with
\* another snapshot) every visible fact path is one of allFactPaths, which
\* lists each path once, so the visible set has the size of allFactPaths
\* only when it holds every known path.
C26_VisibleAreKnownPaths ==
    /\ visibleFactPaths \subseteq Range(allFactPaths)
    /\ \A i, j \in 1..Len(allFactPaths) : allFactPaths[i] = allFactPaths[j] => i = j
    /\ Cardinality(visibleFactPaths) = Len(allFactPaths)
          => visibleFactPaths = Range(allFactPaths)

\* two of the three columns of the snapshot were removed in the pivot view
C26_ColumnsRemoved ==
    /\ ~isLoading
    /\ viewMode = "pivot"
    /\ Len(allFactPaths) = 3
    /\ Cardinality(visibleFactPaths) = 1

----------------------------------------------------------------------------
(* C27: the fields of a pivot record                                       *)

\* C27: every record of the pivot projection has as hostname the host of the
\* rows it was built from, and besides hostname it has one field for each
\* fact path of that host's rows in the pivot input, holding the row's value,
\* and no other field; also when a fact is itself named hostname.
\* (Violated: a fact named hostname overwrites the hostname of the record.)
C27_RecordHoldsHostAndValues ==
    LET hosts == HostsAsMet(PivotInput)
    IN  /\ Len(pivotedData.data) = Len(hosts)
        /\ \A n \in 1..Len(hosts) :
              LET record == pivotedData.data[n]
                  rows   == SelectSeq(PivotInput,
                               LAMBDA r : r.host = hosts[n] /\ r.factPath # SentinelPath)
              IN  /\ GetProperty(record, S("hostname")) = JStr(hosts[n])
                  /\ \A i \in 1..Len(rows) :
                        rows[i].factPath # S("hostname")
                           => GetProperty(record, rows[i].factPath) = rows[i].value
                  /\ {record.e[i].k : i \in 1..Len(record.e)} \ {S("hostname")}
                        = {rows[i].factPath : i \in 1..Len(rows)} \ {S("hostname")}

----------------------------------------------------------------------------
(* C28: the row of a clicked cell matches the pill the click adds          *)

\* C28: when a cell of a row of the list is clicked (its host, its fact
\* path or its value), the row matches every pill of the list the click
\* leaves, the new pill included
C28_ClickedRowStays ==
    [][\A n \in 1..Len(listRows), cell \in 1..3 :
          handleCellClick(CellValues(listRows[n])[cell])
             => everyPill(listRows[n], searchPills')]_vars

----------------------------------------------------------------------------
(* C29: the pill list has no duplicate and no blank pill                   *)

NoDuplicates(seq) == \A i, j \in 1..Len(seq) : seq[i] = seq[j] => i = j

\* seq without its element at index i
WithoutIndex(seq, i) == SubSeq(seq, 1, i - 1) \o SubSeq(seq, i + 1, Len(seq))

\* C29: the pills are pairwise different and none is blank; Backspace on an
\* empty input removes the last pill and nothing else; removing a pill
\* removes one pill and leaves the others in their order
C29_PillListWellFormed ==
    /\ [](/\ NoDuplicates(searchPills)
          /\ \A i \in 1..Len(searchPills) : trim(searchPills[i]) # <<>>)
    /\ [][BackspaceKey =>
             searchPills' = WithoutIndex(searchPills, Len(searchPills))]_vars
    /\ [][\A i \in 1..Len(searchPills) :
             handleRemovePill(searchPills[i])
                => searchPills' = WithoutIndex(searchPills, i)]_vars

\* a typed pill followed by the pill of a clicked value cell
C29_TypedThenClicked ==
    searchPills = << S("os"), S("\"Ubuntu\"") >>

----------------------------------------------------------------------------
(* C30: a load is single-flight and always completes                       *)

=============================================================================
